---- MODULE Spec2Model ----
(***************************************************************************)
(* Temple transactions dashboard.                                          *)
(*                                                                         *)
(* Two things are modelled:                                                *)
(*  - the aggregation layer (DataProcessingService): pure calculators,     *)
(*    applied to bounded record lists under SpecCalc (totals and KPIs),    *)
(*    SpecFilter (filterDataByDate) and SpecAnalytics (calculateAnalytics);*)
(*  - the fetch / refresh / auto-sync lifecycle, under Spec, for the two   *)
(*    front ends of the repository: the React hooks (useIncomeData,        *)
(*    useConnection, App) and the legacy page script                       *)
(*    (testGoogleSheetsConnection, fetchDataFromGoogleSheets, ...).        *)
(*                                                                         *)
(* Amounts are whole rupees.  Percentages are kept in tenths of a percent  *)
(* (toFixed(1)), so 66.7 is the integer 667.                               *)
(***************************************************************************)
EXTENDS Integers, Sequences, FiniteSets, TLC

\* ------------------------------------------------------------------------
\* Bounds
\* ------------------------------------------------------------------------

\* longest record list given to a calculator
MaxRecords == 2

\* number of asynchronous requests (connect, refresh, sync) issued in a run
MaxRequests == 4

\* longest record list given to filterDataByDate
MaxFilterRecords == 2

\* longest record list given to calculateAnalytics
MaxAnalyticsRecords == 2

\* longest record list a calculator is called twice with
MaxRepeatRecords == 2

\* most data rows of a sheet that is parsed
MaxSheetRows == 2

\* longest record list handed to useFilters
MaxHookRecords == 2

\* most notifications that are added
MaxMessages == 3

\* the clock is read at up to this many milliseconds past a multiple of the
\* delay of the timeouts
MaxMillis == 1

\* ------------------------------------------------------------------------
\* Data
\* ------------------------------------------------------------------------

\* types/index.ts: ALL_DEPARTMENTS
ALL_DEPARTMENTS ==
  << "Guest House", "Govindas", "Gift Shop", "Kitchen", "Nitya Seva",
     "Gopal's Sweet Shop", "Gaushala", "Railway BBT", "Vrinda's Food Court",
     "Hundi", "Boat", "Other Donations" >>

\* department strings occurring in the record lists given to the calculators:
\* a composite department, a differently cased spelling of it, two of its
\* sub-sections and an ordinary department
CalcDepartments ==
  { "Kitchen", "kitchen", "Kitchen Hundi", "Kitchen Seva Office", "Gift Shop" }

\* department names the calculators are asked about ("Unknown" and "Gaushala"
\* match no record)
QueryDepartments ==
  { "Kitchen", "kitchen", "Kitchen Hundi", "Gift Shop", "Gaushala", "Unknown" }

CashValues == { 0, 100 }

OnlineValues == { 0, 50 }

\* IncomeRecord { date, department, cash, online }
IncomeRecord(dates, departments) ==
  [ date : dates, department : departments,
    cash : CashValues, online : OnlineValues ]

CalcRecords == IncomeRecord({ "1/1/2025" }, CalcDepartments)

SeqsUpTo(S, n) == UNION { [1..k -> S] : k \in 0..n }

\* ------------------------------------------------------------------------
\* DataProcessingService
\* ------------------------------------------------------------------------

\* data.reduce((sum, record) => sum + record.cash, 0)
RECURSIVE reduceCash(_)
reduceCash(data) ==
  IF data = << >> THEN 0
  ELSE reduceCash(SubSeq(data, 1, Len(data) - 1)) + data[Len(data)].cash

\* data.reduce((sum, record) => sum + record.online, 0)
RECURSIVE reduceOnline(_)
reduceOnline(data) ==
  IF data = << >> THEN 0
  ELSE reduceOnline(SubSeq(data, 1, Len(data) - 1)) + data[Len(data)].online

\* the value the percentages take if they are computed with no revenue
NaN == 0 - 1

\* Number(((part / whole) * 100).toFixed(1)), in tenths of a percent
toFixed1Percent(part, whole) == (part * 2000 + whole) \div (2 * whole)

\* variant: the percentages are computed without the totalRevenue > 0 guard
calculateKPIs_unguarded(data) ==
  LET totalCash == reduceCash(data)
      totalOnline == reduceOnline(data)
      totalRevenue == totalCash + totalOnline
  IN  [ totalRevenue |-> totalRevenue,
        totalCash |-> totalCash,
        totalOnline |-> totalOnline,
        cashPercentage |->
          IF totalRevenue = 0 THEN NaN
          ELSE toFixed1Percent(totalCash, totalRevenue),
        onlinePercentage |->
          IF totalRevenue = 0 THEN NaN
          ELSE toFixed1Percent(totalOnline, totalRevenue),
        activeDepartments |->
          Cardinality({ data[i].department : i \in 1..Len(data) }),
        totalDepartments |-> Len(ALL_DEPARTMENTS) ]

\* variant: only departments with revenue count as active
calculateKPIs_activeWithRevenue(data) ==
  LET totalCash == reduceCash(data)
      totalOnline == reduceOnline(data)
      totalRevenue == totalCash + totalOnline
  IN  [ totalRevenue |-> totalRevenue,
        totalCash |-> totalCash,
        totalOnline |-> totalOnline,
        cashPercentage |->
          IF totalRevenue > 0 THEN toFixed1Percent(totalCash, totalRevenue)
          ELSE 0,
        onlinePercentage |->
          IF totalRevenue > 0 THEN toFixed1Percent(totalOnline, totalRevenue)
          ELSE 0,
        activeDepartments |->
          Cardinality({ data[i].department : i \in
                          { j \in 1..Len(data) :
                              data[j].cash + data[j].online > 0 } }),
        totalDepartments |-> Len(ALL_DEPARTMENTS) ]

calculateKPIs(data) ==
  LET totalCash == reduceCash(data)
      totalOnline == reduceOnline(data)
      totalRevenue == totalCash + totalOnline
  IN  [ totalRevenue |-> totalRevenue,
        totalCash |-> totalCash,
        totalOnline |-> totalOnline,
        cashPercentage |->
          IF totalRevenue > 0 THEN toFixed1Percent(totalCash, totalRevenue)
          ELSE 0,
        onlinePercentage |->
          IF totalRevenue > 0 THEN toFixed1Percent(totalOnline, totalRevenue)
          ELSE 0,
        activeDepartments |->
          Cardinality({ data[i].department : i \in 1..Len(data) }),
        totalDepartments |-> Len(ALL_DEPARTMENTS) ]

\* String.prototype.toLowerCase on the department spellings in use
toLowerCase(s) == IF s = "Kitchen" THEN "kitchen" ELSE s

\* variant: total leaves the online amount out
calculateDepartmentTotals_cashOnly(data, departmentName) ==
  LET deptData == SelectSeq(data, LAMBDA record :
                              record.department = departmentName)
      totalCash == reduceCash(deptData)
      totalOnline == reduceOnline(deptData)
  IN  [ cash |-> totalCash, online |-> totalOnline, total |-> totalCash,
        hasData |-> Len(deptData) > 0 /\ totalCash > 0 ]

\* variant: hasData only asks for a matching record
calculateDepartmentTotals_anyRecord(data, departmentName) ==
  LET deptData == SelectSeq(data, LAMBDA record :
                              record.department = departmentName)
      totalCash == reduceCash(deptData)
      totalOnline == reduceOnline(deptData)
      totalIncome == totalCash + totalOnline
  IN  [ cash |-> totalCash, online |-> totalOnline, total |-> totalIncome,
        hasData |-> Len(deptData) > 0 ]

\* variant: the department comparison ignores case
calculateDepartmentTotals_ignoreCase(data, departmentName) ==
  LET deptData == SelectSeq(data, LAMBDA record :
                     toLowerCase(record.department)
                       = toLowerCase(departmentName))
      totalCash == reduceCash(deptData)
      totalOnline == reduceOnline(deptData)
      totalIncome == totalCash + totalOnline
  IN  [ cash |-> totalCash, online |-> totalOnline, total |-> totalIncome,
        hasData |-> Len(deptData) > 0 /\ totalIncome > 0 ]

\* variant: the first matching record is left out of the sums
calculateDepartmentTotals_skipFirst(data, departmentName) ==
  LET deptData == SelectSeq(data, LAMBDA record :
                              record.department = departmentName)
      rest == IF deptData = << >> THEN << >> ELSE Tail(deptData)
      totalCash == reduceCash(rest)
      totalOnline == reduceOnline(rest)
      totalIncome == totalCash + totalOnline
  IN  [ cash |-> totalCash, online |-> totalOnline, total |-> totalIncome,
        hasData |-> Len(deptData) > 0 /\ totalIncome > 0 ]

calculateDepartmentTotals(data, departmentName) ==
  LET deptData == SelectSeq(data, LAMBDA record :
                              record.department = departmentName)
      totalCash == reduceCash(deptData)
      totalOnline == reduceOnline(deptData)
      totalIncome == totalCash + totalOnline
      \* a department has data if it has records AND the total income is > 0
      hasData == Len(deptData) > 0 /\ totalIncome > 0
  IN  [ cash |-> totalCash, online |-> totalOnline, total |-> totalIncome,
        hasData |-> hasData ]

\* the departments that have sub-sections
MainDepartments == { "Gaushala", "Kitchen", "Hundi", "Other Donations" }

\* the sub-section table; every list starts with the department itself
subSections ==
  [ d \in MainDepartments |->
      CASE d = "Gaushala" ->
             << "Gaushala", "Gaushala Seva Office", "Gaushala Hundi" >>
        [] d = "Kitchen" ->
             << "Kitchen", "Journey Prasad", "Kitchen Seva Office",
                "Kitchen Hundi", "Prasadam Coupan", "Vaishnav Bhoj" >>
        [] d = "Hundi" -> << "Hundi", "Temple Hundi", "Yamuna Hundi" >>
        [] d = "Other Donations" -> << "Other Donations", "General", "PWS" >> ]

Range(s) == { s[i] : i \in 1..Len(s) }

\* the names of the sub-sections of a main department, itself excluded
SubSectionNames(d) == Range(subSections[d]) \ { d }

\* calculateMainDepartmentTotals: the rows of the department itself and of
\* all its sub-sections, folded into one DepartmentTotals
calculateMainDepartmentTotals(data, departmentName) ==
  LET names == IF departmentName \in MainDepartments
               THEN { departmentName } \cup Range(subSections[departmentName])
               ELSE { departmentName }
      deptData == SelectSeq(data, LAMBDA record : record.department \in names)
      totalCash == reduceCash(deptData)
      totalOnline == reduceOnline(deptData)
      totalIncome == totalCash + totalOnline
  IN  [ cash |-> totalCash, online |-> totalOnline, total |-> totalIncome,
        hasData |-> Len(deptData) > 0 /\ totalIncome > 0 ]

\* ------------------------------------------------------------------------
\* Strings of digits, dates
\* ------------------------------------------------------------------------
\* A date string is kept as the list of its "/"-separated fields, and a field
\* as the list of its decimal digits: "01/05/2025" is
\* << <<0,1>>, <<0,5>>, <<2,0,2,5>> >>.  Two date strings are the same string
\* exactly when these lists are equal.  The empty string (and an argument
\* that is not passed) is the empty list.  A Date object at local midnight is
\* the number of days from 1 January of year 1 to it; an Invalid Date is NaN.

\* Number.prototype.toString for a non-negative integer
RECURSIVE toString(_)
toString(n) ==
  IF n < 10 THEN << n >> ELSE toString(n \div 10) \o << n % 10 >>

\* String.prototype.padStart(2, '0')
padStart2(field) == IF Len(field) < 2 THEN << 0 >> \o field ELSE field

\* parseInt(field, 10) for a field of digits; NaN for an empty or missing one
RECURSIVE parseDigits(_)
parseDigits(field) ==
  IF field = << >> THEN 0
  ELSE 10 * parseDigits(SubSeq(field, 1, Len(field) - 1)) + field[Len(field)]

parseInt(field) == IF field = << >> THEN NaN ELSE parseDigits(field)

\* dateStr.split('/').map(num => parseInt(num, 10))[i - 1]
splitField(dateStr, i) ==
  IF i <= Len(dateStr) THEN parseInt(dateStr[i]) ELSE NaN

isLeapYear(y) == (y % 4 = 0 /\ y % 100 # 0) \/ y % 400 = 0

\* days of month m (0 = January) of year y
DaysInMonth(y, m) ==
  CASE m = 1 -> IF isLeapYear(y) THEN 29 ELSE 28
    [] m \in { 3, 5, 8, 10 } -> 30
    [] OTHER -> 31

\* days from 1 January of year 1 to 1 January of year y
DaysBeforeYear(y) ==
  365 * (y - 1) + (y - 1) \div 4 - (y - 1) \div 100 + (y - 1) \div 400

\* days from 1 January of year y to the first of its month m (0 = January)
RECURSIVE DaysBeforeMonth(_, _)
DaysBeforeMonth(y, m) ==
  IF m = 0 THEN 0 ELSE DaysBeforeMonth(y, m - 1) + DaysInMonth(y, m - 1)

\* new Date(year, monthIndex, day): a month index outside 0..11 carries into
\* the year, a day outside the month carries into the neighbouring months,
\* and a year from 0 to 99 stands for 1900 + year
MakeDate(year, monthIndex, day) ==
  LET full == IF year \in 0..99 THEN 1900 + year ELSE year
      y == full + monthIndex \div 12
      m == monthIndex % 12
  IN  DaysBeforeYear(y) + DaysBeforeMonth(y, m) + day - 1

\* Date.prototype.getFullYear
getFullYear(t) ==
  CHOOSE y \in (t \div 366 + 1)..(t \div 365 + 1) :
    DaysBeforeYear(y) <= t /\ t < DaysBeforeYear(y + 1)

\* Date.prototype.getMonth (0 = January)
getMonth(t) ==
  LET y == getFullYear(t)
      dayOfYear == t - DaysBeforeYear(y)
  IN  CHOOSE m \in 0..11 :
        /\ DaysBeforeMonth(y, m) <= dayOfYear
        /\ dayOfYear < DaysBeforeMonth(y, m) + DaysInMonth(y, m)

\* Date.prototype.getDate (day of the month)
getDate(t) ==
  LET y == getFullYear(t)
  IN  t - DaysBeforeYear(y) - DaysBeforeMonth(y, getMonth(t)) + 1

\* Date.prototype.getDay (0 = Sunday); 1 January of year 1 is a Monday
getDay(t) == (t + 1) % 7

\* Date.prototype.setDate
setDate(t, day) == MakeDate(getFullYear(t), getMonth(t), day)

\* variant: the end of the range is not included
DateWithin_endExcluded(recordDate, startDate, endDate) ==
  /\ recordDate # NaN /\ startDate # NaN /\ endDate # NaN
  /\ recordDate >= startDate
  /\ recordDate < endDate

\* recordDate >= startDate && recordDate <= endDate on Date objects: every
\* comparison with an Invalid Date is false
DateWithin(recordDate, startDate, endDate) ==
  /\ recordDate # NaN /\ startDate # NaN /\ endDate # NaN
  /\ recordDate >= startDate
  /\ recordDate <= endDate

\* parseDateString: a field that is missing or empty makes the Date invalid
parseDateString(dateStr) ==
  LET month == splitField(dateStr, 1)
      day == splitField(dateStr, 2)
      year == splitField(dateStr, 3)
  IN  IF month = NaN \/ day = NaN \/ year = NaN THEN NaN
      ELSE MakeDate(year, month - 1, day)

\* variant: the month is written as its index (January is 0)
formatDateForComparison_monthIndex(date) ==
  << toString(getMonth(date)), toString(getDate(date)),
     toString(getFullYear(date)) >>

\* formatDateForComparison
formatDateForComparison(date) ==
  << toString(getMonth(date) + 1), toString(getDate(date)),
     toString(getFullYear(date)) >>

\* the DateFilter values, and a string outside the type
DateFilters == { "all", "yesterday", "week", "month", "year", "specific" }

NoRange == [ none |-> TRUE ]

\* variant: the week starts on Sunday
getDateRange_sundayFirst(filter, now) ==
  LET today == MakeDate(getFullYear(now), getMonth(now), getDate(now))
      yesterday == setDate(today, getDate(today) - 1)
      startOfWeek == setDate(today, getDate(today) - getDay(today))
  IN  CASE filter = "yesterday" -> [ start |-> yesterday, end |-> yesterday ]
        [] filter = "week" ->
             [ start |-> startOfWeek,
               end |-> setDate(startOfWeek, getDate(startOfWeek) + 6) ]
        [] filter = "month" ->
             [ start |-> MakeDate(getFullYear(today), getMonth(today), 1),
               end |-> MakeDate(getFullYear(today), getMonth(today) + 1, 0) ]
        [] filter = "year" ->
             [ start |-> MakeDate(getFullYear(today), 0, 1),
               end |-> MakeDate(getFullYear(today), 11, 31) ]
        [] OTHER -> NoRange

\* variant: a "today" filter exists too, and its range is the day of the clock
getDateRange_withToday(filter, now) ==
  LET today == MakeDate(getFullYear(now), getMonth(now), getDate(now))
      yesterday == setDate(today, getDate(today) - 1)
      dayOfWeek == getDay(today)
      daysToMonday == IF dayOfWeek = 0 THEN 0 - 6 ELSE 1 - dayOfWeek
      startOfWeek == setDate(today, getDate(today) + daysToMonday)
  IN  CASE filter = "today" -> [ start |-> today, end |-> today ]
        [] filter = "yesterday" -> [ start |-> yesterday, end |-> yesterday ]
        [] filter = "week" ->
             [ start |-> startOfWeek,
               end |-> setDate(startOfWeek, getDate(startOfWeek) + 6) ]
        [] filter = "month" ->
             [ start |-> MakeDate(getFullYear(today), getMonth(today), 1),
               end |-> MakeDate(getFullYear(today), getMonth(today) + 1, 0) ]
        [] filter = "year" ->
             [ start |-> MakeDate(getFullYear(today), 0, 1),
               end |-> MakeDate(getFullYear(today), 11, 31) ]
        [] OTHER -> NoRange

\* getDateRange, with the reading `now` of the clock (new Date())
getDateRange(filter, now) ==
  LET today == MakeDate(getFullYear(now), getMonth(now), getDate(now))
      yesterday == setDate(today, getDate(today) - 1)
      dayOfWeek == getDay(today)
      \* if Sunday (0), go back 6 days to Monday
      daysToMonday == IF dayOfWeek = 0 THEN 0 - 6 ELSE 1 - dayOfWeek
      startOfWeek == setDate(today, getDate(today) + daysToMonday)
      startOfMonth == MakeDate(getFullYear(today), getMonth(today), 1)
      startOfYear == MakeDate(getFullYear(today), 0, 1)
  IN  CASE filter = "yesterday" -> [ start |-> yesterday, end |-> yesterday ]
        [] filter = "week" ->
             [ start |-> startOfWeek,
               end |-> setDate(startOfWeek, getDate(startOfWeek) + 6) ]
        [] filter = "month" ->
             [ start |-> startOfMonth,
               end |-> MakeDate(getFullYear(today), getMonth(today) + 1, 0) ]
        [] filter = "year" ->
             [ start |-> startOfYear,
               end |-> MakeDate(getFullYear(today), 11, 31) ]
        [] OTHER -> NoRange

\* variant: a call that matches no branch returns nothing
filterDataByDate_dropAll(data, filter, specificDate, startDate, endDate, now) ==
  IF filter = "all" THEN data
  ELSE IF filter = "specific" /\ startDate # << >> /\ endDate # << >>
  THEN SelectSeq(data, LAMBDA record :
         DateWithin(parseDateString(record.date),
                    parseDateString(startDate), parseDateString(endDate)))
  ELSE IF filter = "specific" /\ specificDate # << >>
  THEN SelectSeq(data, LAMBDA record : record.date = specificDate)
  ELSE LET range == getDateRange(filter, now)
       IN  IF range = NoRange THEN << >>
           ELSE LET startStr == formatDateForComparison(range.start)
                    endStr == formatDateForComparison(range.end)
                IN  SelectSeq(data, LAMBDA record :
                      DateWithin(parseDateString(record.date),
                                 parseDateString(startStr),
                                 parseDateString(endStr)))

\* filterDataByDate; `now` is read only where getDateRange is reached
filterDataByDate(data, filter, specificDate, startDate, endDate, now) ==
  IF filter = "all" THEN data
  ELSE IF filter = "specific" /\ startDate # << >> /\ endDate # << >>
  THEN SelectSeq(data, LAMBDA record :
         DateWithin(parseDateString(record.date),
                    parseDateString(startDate), parseDateString(endDate)))
  ELSE IF filter = "specific" /\ specificDate # << >>
  THEN SelectSeq(data, LAMBDA record : record.date = specificDate)
  ELSE LET range == getDateRange(filter, now)
       IN  IF range = NoRange THEN data
           ELSE LET startStr == formatDateForComparison(range.start)
                    endStr == formatDateForComparison(range.end)
                IN  SelectSeq(data, LAMBDA record :
                      DateWithin(parseDateString(record.date),
                                 parseDateString(startStr),
                                 parseDateString(endStr)))

\* ------------------------------------------------------------------------
\* DataProcessingService: calculateAnalytics
\* ------------------------------------------------------------------------
\* A JavaScript object used as a map (dailyRevenue, deptRevenue, ...) is the
\* list of its own properties in enumeration order, each with its key, the
\* number the key stands for when it is a canonical array index (NaN when it
\* is not one) and its value.  Keys that are array indices come first, in
\* ascending numeric order; the other keys follow in insertion order.
\* A number that need not be whole is an exact fraction in lowest terms.

\* the literal '--'
Dashes == [ text |-> "--" ]

\* the array index a date string is, if it is one: digits only, no slash and
\* no leading zero
ArrayIndexOfDate(dateStr) ==
  IF /\ Len(dateStr) = 1
     /\ dateStr[1] # << >>
     /\ (Len(dateStr[1]) = 1 \/ dateStr[1][1] # 0)
  THEN parseDigits(dateStr[1])
  ELSE NaN

\* the array index a department string is, if it is one ("007" is none)
ArrayIndexOfDepartment(name) ==
  CASE name = "7" -> 7
    [] name = "10" -> 10
    [] OTHER -> NaN

\* if (!obj[key]) { obj[key] = 0; }  obj[key] += amount
addToProperty(obj, key, index, amount) ==
  IF \E i \in 1..Len(obj) : obj[i].key = key
  THEN [ i \in 1..Len(obj) |->
           IF obj[i].key = key
           THEN [ obj[i] EXCEPT !.value = @ + amount ]
           ELSE obj[i] ]
  ELSE LET property == [ key |-> key, index |-> index, value |-> amount ]
           before ==
             IF index = NaN THEN Len(obj)
             ELSE Cardinality({ i \in 1..Len(obj) :
                                  obj[i].index # NaN /\ obj[i].index < index })
       IN  SubSeq(obj, 1, before) \o << property >>
             \o SubSeq(obj, before + 1, Len(obj))

\* data.forEach(record => { ... dailyRevenue[record.date] += cash + online })
RECURSIVE dailyRevenue(_)
dailyRevenue(data) ==
  IF data = << >> THEN << >>
  ELSE LET record == data[Len(data)]
       IN  addToProperty(dailyRevenue(SubSeq(data, 1, Len(data) - 1)),
                         record.date, ArrayIndexOfDate(record.date),
                         record.cash + record.online)

\* data.forEach(record => { ... deptRevenue[record.department] += ... })
RECURSIVE deptRevenue(_)
deptRevenue(data) ==
  IF data = << >> THEN << >>
  ELSE LET record == data[Len(data)]
       IN  addToProperty(deptRevenue(SubSeq(data, 1, Len(data) - 1)),
                         record.department,
                         ArrayIndexOfDepartment(record.department),
                         record.cash + record.online)

\* variant of the sort below: an entry is placed before the entries of equal
\* value
RECURSIVE sortByValueDescending_laterFirst(_)
sortByValueDescending_laterFirst(entries) ==
  IF entries = << >> THEN << >>
  ELSE LET entry == entries[Len(entries)]
           sorted == sortByValueDescending_laterFirst(
                       SubSeq(entries, 1, Len(entries) - 1))
           before == Cardinality({ i \in 1..Len(sorted) :
                                     sorted[i].value > entry.value })
       IN  SubSeq(sorted, 1, before) \o << entry >>
             \o SubSeq(sorted, before + 1, Len(sorted))

\* Object.entries(obj).sort(([,a], [,b]) => b - a): descending by value,
\* entries of equal value keep their order (the sort is stable)
RECURSIVE sortByValueDescending(_)
sortByValueDescending(entries) ==
  IF entries = << >> THEN << >>
  ELSE LET entry == entries[Len(entries)]
           sorted == sortByValueDescending(
                       SubSeq(entries, 1, Len(entries) - 1))
           before == Cardinality({ i \in 1..Len(sorted) :
                                     sorted[i].value >= entry.value })
       IN  SubSeq(sorted, 1, before) \o << entry >>
             \o SubSeq(sorted, before + 1, Len(sorted))

\* formatCurrency: the amount as rupees and paise in the en-IN notation
formatCurrency(amount) ==
  [ currency |-> "INR", rupees |-> amount, paise |-> << 0, 0 >> ]

\* formatDate: new Date(dateString) shown as day, short month and year, for a
\* month/day/year string with a four-digit year
formatDate(dateString) ==
  LET date == parseDateString(dateString)
  IN  [ day |-> getDate(date), month |-> getMonth(date) + 1,
        year |-> getFullYear(date) ]

RECURSIVE GCD(_, _)
GCD(a, b) == IF b = 0 THEN a ELSE GCD(b, a % b)

\* numerator / denominator, for a positive denominator
Quotient(numerator, denominator) ==
  LET g == GCD(IF numerator < 0 THEN 0 - numerator ELSE numerator,
               denominator)
  IN  [ num |-> numerator \div g, den |-> denominator \div g ]

\* variant: the second decimal is cut off instead of rounded
cashOnlineRatio_truncated(totalCash, totalOnline) ==
  IF totalOnline > 0
  THEN LET hundredths == (100 * totalCash) \div totalOnline
       IN  [ whole |-> toString(hundredths \div 100),
             fraction |-> << (hundredths % 100) \div 10, hundredths % 10 >>,
             suffix |-> ":1" ]
  ELSE Dashes

\* ratio = totalOnline > 0 ? (totalCash / totalOnline).toFixed(2) : '--';
\* ratioFormatted = ratio !== '--' ? `${ratio}:1` : '--'
\* (for a cash total that is not negative)
cashOnlineRatio(totalCash, totalOnline) ==
  IF totalOnline > 0
  THEN LET hundredths == (200 * totalCash + totalOnline) \div (2 * totalOnline)
       IN  [ whole |-> toString(hundredths \div 100),
             fraction |-> << (hundredths % 100) \div 10, hundredths % 10 >>,
             suffix |-> ":1" ]
  ELSE Dashes

\* `${year}-${month.toString().padStart(2, '0')}`
monthKey(dateStr) ==
  << toString(splitField(dateStr, 3)),
     padStart2(toString(splitField(dateStr, 1))) >>

\* year.toString()
yearKey(dateStr) == toString(splitField(dateStr, 3))

\* variant: the averages of an empty list are the quotient 0 / 0
calculateAnalytics_emptyDivides(data) ==
  IF Len(data) = 0
  THEN [ bestDay |-> Dashes, topDepartment |-> Dashes,
         cashOnlineRatio |-> Dashes,
         avgDailyRevenue |-> [ num |-> 0, den |-> 0 ],
         avgMonthlyRevenue |-> [ num |-> 0, den |-> 0 ],
         avgYearlyRevenue |-> [ num |-> 0, den |-> 0 ] ]
  ELSE LET bestDay == sortByValueDescending(dailyRevenue(data))[1]
           topDept == sortByValueDescending(deptRevenue(data))[1]
           totalCash == reduceCash(data)
           totalOnline == reduceOnline(data)
           uniqueDates == { data[i].date : i \in 1..Len(data) }
           uniqueMonths ==
             Cardinality({ monthKey(data[i].date) : i \in 1..Len(data) })
           uniqueYears ==
             Cardinality({ yearKey(data[i].date) : i \in 1..Len(data) })
       IN  [ bestDay |-> [ date |-> formatDate(bestDay.key),
                           amount |-> formatCurrency(bestDay.value) ],
             topDepartment |-> [ name |-> topDept.key,
                                 amount |-> formatCurrency(topDept.value) ],
             cashOnlineRatio |-> cashOnlineRatio(totalCash, totalOnline),
             avgDailyRevenue |->
               Quotient(totalCash + totalOnline, Cardinality(uniqueDates)),
             avgMonthlyRevenue |->
               Quotient(totalCash + totalOnline, uniqueMonths),
             avgYearlyRevenue |->
               Quotient(totalCash + totalOnline, uniqueYears) ]

\* calculateAnalytics, for records whose date has its three fields
calculateAnalytics(data) ==
  IF Len(data) = 0
  THEN [ bestDay |-> Dashes, topDepartment |-> Dashes,
         cashOnlineRatio |-> Dashes,
         avgDailyRevenue |-> Quotient(0, 1),
         avgMonthlyRevenue |-> Quotient(0, 1),
         avgYearlyRevenue |-> Quotient(0, 1) ]
  ELSE LET bestDay == sortByValueDescending(dailyRevenue(data))[1]
           topDept == sortByValueDescending(deptRevenue(data))[1]
           totalCash == reduceCash(data)
           totalOnline == reduceOnline(data)
           uniqueDates == { data[i].date : i \in 1..Len(data) }
           uniqueMonths ==
             Cardinality({ monthKey(data[i].date) : i \in 1..Len(data) })
           uniqueYears ==
             Cardinality({ yearKey(data[i].date) : i \in 1..Len(data) })
       IN  [ bestDay |-> [ date |-> formatDate(bestDay.key),
                           amount |-> formatCurrency(bestDay.value) ],
             topDepartment |-> [ name |-> topDept.key,
                                 amount |-> formatCurrency(topDept.value) ],
             cashOnlineRatio |-> cashOnlineRatio(totalCash, totalOnline),
             avgDailyRevenue |->
               Quotient(totalCash + totalOnline, Cardinality(uniqueDates)),
             avgMonthlyRevenue |->
               Quotient(totalCash + totalOnline, uniqueMonths),
             avgYearlyRevenue |->
               Quotient(totalCash + totalOnline, uniqueYears) ]

\* ------------------------------------------------------------------------
\* State
\* ------------------------------------------------------------------------

VARIABLES
  calcData,     \* the record list given to the calculators
  calcDept,     \* the department name given to the calculators
  calcArgs,     \* the other arguments of the call and the clock reading
                \* it took, where it has any
  calcOp,       \* the calculator called last ("idle" before the first call)
  calcOut,      \* what it returned
  calcPrev,     \* what the call before it returned and the clock reading that
                \* call took, where the same call was made twice
  app,          \* the front end that runs: "react" or "legacy"
  \* useIncomeData
  envConfigured,    \* the REACT_APP_* variables hold a complete configuration
  data,             \* the record snapshot
  filteredData,
  loading,
  error,
  \* useConnection
  connectionState,  \* status and message (lastSync, a clock reading, left out)
  autoSyncIntervalRef,
  configRef,
  \* legacy page script
  incomeData,       \* the record snapshot
  isConnected,
  autoSyncInterval,
  \* useMessages
  messages,     \* the notifications on screen
  timeouts,     \* the setTimeout callbacks that wait, in the order they were set
  dateNow,      \* Date.now(), in milliseconds
  \* the browser
  timers,       \* handles of the interval timers that are active
  pending,      \* requests in flight, each with the continuation awaiting it
  nextId        \* the next request (and timer) handle

calcVars == << calcData, calcDept, calcArgs, calcOp, calcOut, calcPrev >>

incomeVars == << data, filteredData, loading, error >>

connectionVars == << connectionState, autoSyncIntervalRef, configRef >>

legacyVars == << incomeData, isConnected, autoSyncInterval >>

messageVars == << messages, timeouts, dateNow >>

browserVars == << timers, pending, nextId >>

vars ==
  << calcData, calcDept, calcArgs, calcOp, calcOut, calcPrev, app,
     envConfigured, data, filteredData, loading, error,
     connectionState, autoSyncIntervalRef, configRef,
     incomeData, isConnected, autoSyncInterval,
     messages, timeouts, dateNow,
     timers, pending, nextId >>

NoResult == [ none |-> TRUE ]

NoTimer == 0

NoConfig == [ none |-> TRUE ]

NoError == "null"

\* the message of the error fetchData throws
FetchErrorMessage == "Failed to fetch data from Google Sheets"

\* GoogleSheetsConfig values handed to connect(): a complete one and one
\* whose apiKey is empty
Configs ==
  { [ apiKey |-> "key", spreadsheetId |-> "sheet", range |-> "Sheet1!A:E",
      refreshInterval |-> 30000 ],
    [ apiKey |-> "", spreadsheetId |-> "sheet", range |-> "Sheet1!A:E",
      refreshInterval |-> 30000 ] }

\* !config.apiKey || !config.spreadsheetId
MissingCredentials(config) == config.apiKey = "" \/ config.spreadsheetId = ""

\* the record lists the spreadsheet is seen to hold
Datasets ==
  { << [ date |-> "1/1/2025", department |-> "Kitchen",
         cash |-> 100, online |-> 50 ] >>,
    << [ date |-> "1/2/2025", department |-> "Gift Shop",
         cash |-> 0, online |-> 0 ],
       [ date |-> "1/1/2025", department |-> "Kitchen",
         cash |-> 100, online |-> 50 ] >> }

\* what fetchData resolves with: a record list, empty for a sheet with
\* fewer than two rows
FetchResults == Datasets \cup { << >> }

\* useIncomeData: the sample data used when the environment is incomplete
sampleDataReact ==
  << [ date |-> "01/01/25", department |-> "Temple",
       cash |-> 1000, online |-> 500 ],
     [ date |-> "02/01/25", department |-> "Donation",
       cash |-> 800, online |-> 300 ],
     [ date |-> "03/01/25", department |-> "Events",
       cash |-> 1200, online |-> 400 ] >>

\* legacy script: sampleData
sampleData ==
  << [ date |-> "2025-01-15", department |-> "Guest House",
       cash |-> 8000, online |-> 12000 ],
     [ date |-> "2025-01-16", department |-> "Seva Office",
       cash |-> 5000, online |-> 8000 ],
     [ date |-> "2025-01-17", department |-> "Gift Shop",
       cash |-> 2800, online |-> 1200 ],
     [ date |-> "2025-01-18", department |-> "Kitchen",
       cash |-> 3500, online |-> 2500 ],
     [ date |-> "2025-01-19", department |-> "Temple Maintenance",
       cash |-> 4200, online |-> 1800 ],
     [ date |-> "2025-01-20", department |-> "Education",
       cash |-> 2800, online |-> 3200 ],
     [ date |-> "2025-01-21", department |-> "Health",
       cash |-> 1500, online |-> 2200 ],
     [ date |-> "2025-01-22", department |-> "Social Services",
       cash |-> 3200, online |-> 2800 ] >>

\* the snapshot of the front end that runs
Snapshot == IF app = "legacy" THEN incomeData ELSE data

\* requests that carry spreadsheet data
FetchKinds == { "refresh", "sync", "legacyFetch" }

Fetches(reqs) == { r \in reqs : r.kind \in FetchKinds }

\* A request in flight.  startSnapshot (the snapshot when it was issued) and
\* overlapped (another fetch was in flight at some moment of its life) only
\* record history; no operation reads them.
Request(id, kind, config) ==
  [ id |-> id, kind |-> kind, config |-> config,
    startSnapshot |-> Snapshot,
    overlapped |-> kind \in FetchKinds /\ Fetches(pending) # { } ]

\* the requests reqs once request r is issued beside them
IssueBeside(reqs, r) ==
  { IF r.kind \in FetchKinds /\ p.kind \in FetchKinds
    THEN [ p EXCEPT !.overlapped = TRUE ] ELSE p : p \in reqs } \cup { r }

\* the requests in flight once request r is issued
Issue(r) == IssueBeside(pending, r)

\* ------------------------------------------------------------------------
\* The calculators applied to a record list
\* ------------------------------------------------------------------------

IdleLifecycle ==
  /\ app = "none"
  /\ envConfigured = TRUE
  /\ data = << >>
  /\ filteredData = << >>
  /\ loading = FALSE
  /\ error = NoError
  /\ connectionState = [ status |-> "disconnected",
                         message |-> "Not Connected" ]
  /\ autoSyncIntervalRef = NoTimer
  /\ configRef = NoConfig
  /\ incomeData = << >>
  /\ isConnected = FALSE
  /\ autoSyncInterval = NoTimer
  /\ messages = << >>
  /\ timeouts = << >>
  /\ dateNow = 0
  /\ timers = { }
  /\ pending = { }
  /\ nextId = 1

lifecycleVars ==
  << app, envConfigured, incomeVars, connectionVars, legacyVars, messageVars,
     browserVars >>

InitCalc ==
  /\ calcData \in SeqsUpTo(CalcRecords, MaxRecords)
  /\ calcDept \in QueryDepartments
  /\ calcArgs = NoResult
  /\ calcOp = "idle"
  /\ calcOut = NoResult
  /\ calcPrev = NoResult
  /\ IdleLifecycle

CallCalculateDepartmentTotals ==
  /\ calcOp' = "calculateDepartmentTotals"
  /\ calcOut' = calculateDepartmentTotals(calcData, calcDept)
  /\ UNCHANGED << calcData, calcDept, calcArgs, calcPrev, lifecycleVars >>

\* DepartmentsSection / DepartmentPerformanceChart: main departments go
\* through calculateMainDepartmentTotals
CallCalculateMainDepartmentTotals ==
  /\ calcDept \in MainDepartments
  /\ calcOp' = "calculateMainDepartmentTotals"
  /\ calcOut' = calculateMainDepartmentTotals(calcData, calcDept)
  /\ UNCHANGED << calcData, calcDept, calcArgs, calcPrev, lifecycleVars >>

CallCalculateKPIs ==
  /\ calcOp' = "calculateKPIs"
  /\ calcOut' = calculateKPIs(calcData)
  /\ UNCHANGED << calcData, calcDept, calcArgs, calcPrev, lifecycleVars >>

NextCalc ==
  \/ CallCalculateDepartmentTotals
  \/ CallCalculateMainDepartmentTotals
  \/ CallCalculateKPIs

SpecCalc == InitCalc /\ [][NextCalc]_vars

\* ------------------------------------------------------------------------
\* filterDataByDate applied to a record list
\* ------------------------------------------------------------------------

\* the date string month/day/year as a spreadsheet writes it without padding
DateString(month, day, year) ==
  << toString(month), toString(day), toString(year) >>

\* the same with month and day padded to two digits
PaddedDateString(month, day, year) ==
  << padStart2(toString(month)), padStart2(toString(day)), toString(year) >>

\* Date strings of the records that are filtered: the days around the week,
\* month and year boundaries of the two clock readings below, one day in two
\* spellings, a two-digit year (as in the sample data of useIncomeData) and
\* a string without slashes.
FilterDates ==
  { DateString(12, 29, 2024), DateString(12, 30, 2024),
    DateString(12, 31, 2024), DateString(1, 1, 2025),
    DateString(1, 5, 2025), PaddedDateString(1, 5, 2025),
    DateString(1, 6, 2025), DateString(1, 31, 2025),
    DateString(2, 1, 2025), DateString(12, 31, 2025),
    DateString(1, 1, 2026),
    DateString(2, 25, 2024), DateString(2, 26, 2024),
    DateString(3, 2, 2024), DateString(3, 3, 2024),
    DateString(3, 4, 2024),
    PaddedDateString(1, 1, 25),
    << toString(45660) >> }

FilterRecords ==
  { [ date |-> d, department |-> "Kitchen", cash |-> 100, online |-> 50 ] :
      d \in FilterDates }

\* readings of the clock: Wednesday 1 January 2025 and Sunday 3 March 2024
FilterNows == { MakeDate(2025, 0, 1), MakeDate(2024, 2, 3) }

\* dates chosen in the date inputs, in the M/D/YYYY form the filter bar
\* hands over
SpecificDates == { DateString(12, 30, 2024), DateString(1, 5, 2025) }

\* the call took no clock reading
NoClock == NaN

\* the call reaches getDateRange, which reads the clock
ReachesGetDateRange(filter, specificDate, startDate, endDate) ==
  /\ filter # "all"
  /\ ~(filter = "specific" /\ startDate # << >> /\ endDate # << >>)
  /\ ~(filter = "specific" /\ specificDate # << >>)

InitFilter ==
  /\ calcData \in SeqsUpTo(FilterRecords, MaxFilterRecords)
  /\ calcDept = "Unknown"
  /\ calcArgs = NoResult
  /\ calcOp = "idle"
  /\ calcOut = NoResult
  /\ calcPrev = NoResult
  /\ IdleLifecycle

\* useFilters: filterDataByDate(data, currentFilter, specificDate, startDate,
\* endDate), once for a record list.  The quick filters come with no
\* dates; "today" is a filter string outside the DateFilter type.
CallFilterDataByDate ==
  /\ calcOp = "idle"
  /\ \E filter \in DateFilters \cup { "today" },
        specificDate \in SpecificDates \cup { << >> },
        startDate \in SpecificDates \cup { << >> },
        endDate \in SpecificDates \cup { << >> },
        now \in FilterNows \cup { NoClock } :
       /\ filter # "specific"
            => specificDate = << >> /\ startDate = << >> /\ endDate = << >>
       /\ (now # NoClock)
            <=> ReachesGetDateRange(filter, specificDate, startDate, endDate)
       /\ calcOp' = "filterDataByDate"
       /\ calcArgs' = [ filter |-> filter, specificDate |-> specificDate,
                        startDate |-> startDate, endDate |-> endDate,
                        now |-> now ]
       /\ calcOut' = filterDataByDate(calcData, filter, specificDate,
                                      startDate, endDate, now)
       /\ UNCHANGED << calcData, calcDept, calcPrev, lifecycleVars >>

NextFilter == CallFilterDataByDate

SpecFilter == InitFilter /\ [][NextFilter]_vars

\* ------------------------------------------------------------------------
\* calculateAnalytics applied to a record list
\* ------------------------------------------------------------------------

\* one day in two spellings, a day of another month and a day of another year
AnalyticsDates ==
  { DateString(1, 5, 2025), PaddedDateString(1, 5, 2025),
    DateString(2, 1, 2025), DateString(1, 5, 2026) }

\* an ordinary department name and two names that are whole numbers
AnalyticsDepartments == { "Kitchen", "7", "10" }

\* (cash, online) of a row; the last one is a correction row that takes an
\* online amount back
AnalyticsAmounts == { << 300, 100 >>, << 200, 300 >>, << 100, 0 >>,
                      << 0, 0 - 100 >> }

AnalyticsRecords ==
  { [ date |-> d, department |-> dept, cash |-> a[1], online |-> a[2] ] :
      d \in AnalyticsDates, dept \in AnalyticsDepartments,
      a \in AnalyticsAmounts }

InitAnalytics ==
  /\ calcData \in SeqsUpTo(AnalyticsRecords, MaxAnalyticsRecords)
  /\ calcDept = "Unknown"
  /\ calcArgs = NoResult
  /\ calcOp = "idle"
  /\ calcOut = NoResult
  /\ calcPrev = NoResult
  /\ IdleLifecycle

\* calculateAnalytics(filteredData), once for a record list
CallCalculateAnalytics ==
  /\ calcOp = "idle"
  /\ calcOp' = "calculateAnalytics"
  /\ calcOut' = calculateAnalytics(calcData)
  /\ UNCHANGED << calcData, calcDept, calcArgs, calcPrev, lifecycleVars >>

NextAnalytics == CallCalculateAnalytics

SpecAnalytics == InitAnalytics /\ [][NextAnalytics]_vars

\* ------------------------------------------------------------------------
\* A calculator called twice with the same arguments
\* ------------------------------------------------------------------------

\* the day of each clock reading and a day of the week before the first
RepeatDates ==
  { DateString(1, 1, 2025), DateString(3, 3, 2024), DateString(12, 25, 2024) }

RepeatRecords ==
  { [ date |-> d, department |-> "Kitchen", cash |-> 100, online |-> 50 ] :
      d \in RepeatDates }

Calculators ==
  { "calculateDepartmentTotals", "calculateKPIs", "calculateAnalytics",
    "filterDataByDate" }

\* the calculator op applied to its arguments; new Date() inside getDateRange
\* gives `now`
Evaluate(op, records, department, args, now) ==
  CASE op = "calculateDepartmentTotals" ->
         calculateDepartmentTotals(records, department)
    [] op = "calculateKPIs" -> calculateKPIs(records)
    [] op = "calculateAnalytics" -> calculateAnalytics(records)
    [] op = "filterDataByDate" ->
         filterDataByDate(records, args.filter, args.specificDate,
                          args.startDate, args.endDate, now)

InitRepeat ==
  /\ calcData \in SeqsUpTo(RepeatRecords, MaxRepeatRecords)
  /\ calcDept \in { "Kitchen", "Unknown" }
  /\ calcArgs = NoResult
  /\ calcOp = "idle"
  /\ calcOut = NoResult
  /\ calcPrev = NoResult
  /\ IdleLifecycle

\* the first call of a calculator on the record list
FirstCall ==
  /\ calcOp = "idle"
  /\ \E op \in Calculators,
        filter \in DateFilters \cup { "today" },
        specificDate \in { DateString(1, 1, 2025), << >> },
        startDate \in { DateString(12, 25, 2024), << >> },
        endDate \in { DateString(1, 1, 2025), << >> },
        now \in FilterNows \cup { NoClock } :
       /\ filter # "specific"
            => specificDate = << >> /\ startDate = << >> /\ endDate = << >>
       /\ op # "filterDataByDate" => filter = "all"
       /\ (now # NoClock)
            <=> /\ op = "filterDataByDate"
                /\ ReachesGetDateRange(filter, specificDate, startDate,
                                       endDate)
       /\ calcOp' = op
       /\ calcArgs' = [ filter |-> filter, specificDate |-> specificDate,
                        startDate |-> startDate, endDate |-> endDate,
                        now |-> now ]
       /\ calcOut' = Evaluate(op, calcData, calcDept, calcArgs', now)
       /\ UNCHANGED << calcData, calcDept, calcPrev, lifecycleVars >>

\* the same call again: the same record list and arguments, and the clock
\* reading of the moment where the call takes one
SecondCall ==
  /\ calcOp \in Calculators
  /\ calcPrev = NoResult
  /\ \E now \in FilterNows \cup { NoClock } :
       /\ (now = NoClock) <=> (calcArgs.now = NoClock)
       /\ calcPrev' = [ out |-> calcOut, now |-> calcArgs.now ]
       /\ calcArgs' = [ calcArgs EXCEPT !.now = now ]
       /\ calcOut' = Evaluate(calcOp, calcData, calcDept, calcArgs, now)
       /\ UNCHANGED << calcData, calcDept, calcOp, lifecycleVars >>

NextRepeat ==
  \/ FirstCall
  \/ SecondCall

SpecRepeat == InitRepeat /\ [][NextRepeat]_vars

\* ------------------------------------------------------------------------
\* GoogleSheetsServiceImpl: parseGoogleSheetsData
\* A cell of the sheet is a string, written as the list of its characters.
\* ------------------------------------------------------------------------

UpperCaseLetters ==
  << "A", "B", "C", "D", "E", "F", "G", "H", "I", "J", "K", "L", "M",
     "N", "O", "P", "Q", "R", "S", "T", "U", "V", "W", "X", "Y", "Z" >>

LowerCaseLetters ==
  << "a", "b", "c", "d", "e", "f", "g", "h", "i", "j", "k", "l", "m",
     "n", "o", "p", "q", "r", "s", "t", "u", "v", "w", "x", "y", "z" >>

\* String.prototype.toLowerCase on a list of characters
toLowerCaseChars(h) ==
  [ i \in 1..Len(h) |->
      IF \E k \in 1..26 : UpperCaseLetters[k] = h[i]
      THEN LowerCaseLetters[CHOOSE k \in 1..26 : UpperCaseLetters[k] = h[i]]
      ELSE h[i] ]

\* String.prototype.includes
includes(h, searchString) ==
  \E i \in 1..(Len(h) - Len(searchString) + 1) :
    SubSeq(h, i, i + Len(searchString) - 1) = searchString

\* the strings each findIndex callback looks for
dateSynonyms ==
  { << "d", "a", "t", "e" >>,
    << "d", "a", "y" >>,
    << "t", "i", "m", "e" >> }

departmentSynonyms ==
  { << "d", "e", "p", "a", "r", "t", "m", "e", "n", "t" >>,
    << "d", "e", "p", "t" >>,
    << "c", "a", "t", "e", "g", "o", "r", "y" >>,
    << "l", "o", "c", "a", "t", "i", "o", "n" >> }

cashSynonyms ==
  { << "c", "a", "s", "h" >>,
    << "c", "a", "s", "h", " ", "a", "m", "o", "u", "n", "t" >>,
    << "c", "a", "s", "h", " ", "r", "e", "v", "e", "n", "u", "e" >> }

onlineSynonyms ==
  { << "o", "n", "l", "i", "n", "e" >>,
    << "d", "i", "g", "i", "t", "a", "l" >>,
    << "c", "a", "r", "d" >>,
    << "o", "n", "l", "i", "n", "e", " ", "a", "m", "o", "u", "n", "t" >>,
    << "o", "n", "l", "i", "n", "e", " ", "r", "e", "v", "e", "n", "u", "e" >> }

\* headers.findIndex(h => h.toLowerCase().includes(...) || ...): the index
\* (from 0) of the first header that holds one of the strings, -1 without
findIndex(headers, synonyms) ==
  LET matches(i) == \E syn \in synonyms :
                      includes(toLowerCaseChars(headers[i]), syn)
  IN  IF \E i \in 1..Len(headers) : matches(i)
      THEN (CHOOSE i \in 1..Len(headers) :
              matches(i) /\ \A j \in 1..(i - 1) : ~matches(j)) - 1
      ELSE 0 - 1

\* row[index] || ''
cellOrEmpty(row, index) ==
  IF index + 1 \in 1..Len(row) THEN row[index + 1] ELSE << >>

DecimalDigits == << "0", "1", "2", "3", "4", "5", "6", "7", "8", "9" >>

isDigit(c) == \E k \in 1..10 : DecimalDigits[k] = c

digitValue(c) == (CHOOSE k \in 1..10 : DecimalDigits[k] = c) - 1

\* the digits a string starts with, as a number (0 for none)
RECURSIVE leadingDigits(_, _)
leadingDigits(chars, acc) ==
  IF chars # << >> /\ isDigit(chars[1])
  THEN leadingDigits(Tail(chars), 10 * acc + digitValue(chars[1]))
  ELSE acc

RECURSIVE trimStart(_)
trimStart(chars) ==
  IF chars # << >> /\ chars[1] = " " THEN trimStart(Tail(chars)) ELSE chars

\* parseFloat(cell) || 0, for cells without a decimal point or an exponent:
\* leading blanks are skipped, a sign is read, then the digits up to the first
\* other character; a cell (or a missing cell) that starts with no number
\* gives NaN, which || turns into 0
parseFloatOrZero(row, index) ==
  LET cell == trimStart(cellOrEmpty(row, index))
      negative == cell # << >> /\ cell[1] = "-"
      unsigned == IF cell # << >> /\ cell[1] \in { "-", "+" }
                  THEN Tail(cell) ELSE cell
  IN  IF unsigned = << >> \/ ~isDigit(unsigned[1]) THEN 0
      ELSE IF negative THEN 0 - leadingDigits(unsigned, 0)
      ELSE leadingDigits(unsigned, 0)

ColumnsError ==
  "Spreadsheet must have at least 4 columns: Date, Department, Cash, Online"

\* what a call gives: the records it returns or the Error it throws
Returns(records) == [ throws |-> NoError, value |-> records ]

Throws(message) == [ throws |-> message, value |-> << >> ]

\* data.values is missing
NoValues == << << << "undefined" >> >> >>

\* variant: a record without a department is kept
mapAndFilter_dateOnly(rows, dateIndex, departmentIndex, cashIndex, onlineIndex) ==
  LET records == [ i \in 1..Len(rows) |->
                     [ date |-> cellOrEmpty(rows[i], dateIndex),
                       department |-> cellOrEmpty(rows[i], departmentIndex),
                       cash |-> parseFloatOrZero(rows[i], cashIndex),
                       online |-> parseFloatOrZero(rows[i], onlineIndex) ] ]
  IN  SelectSeq(records, LAMBDA record : record.date # << >>)

\* rows.map(row => ({ date: row[i] || '', ... })).filter(record =>
\* record.date && record.department)
mapAndFilter(rows, dateIndex, departmentIndex, cashIndex, onlineIndex) ==
  LET records == [ i \in 1..Len(rows) |->
                     [ date |-> cellOrEmpty(rows[i], dateIndex),
                       department |-> cellOrEmpty(rows[i], departmentIndex),
                       cash |-> parseFloatOrZero(rows[i], cashIndex),
                       online |-> parseFloatOrZero(rows[i], onlineIndex) ] ]
  IN  SelectSeq(records, LAMBDA record :
                  record.date # << >> /\ record.department # << >>)

\* variant: only a field without a matching header falls back to its position
parseGoogleSheetsData_perField(values) ==
  IF values = NoValues \/ Len(values) < 2 THEN Returns(<< >>)
  ELSE LET headers == Head(values)
           rows == Tail(values)
           dateIndex == findIndex(headers, dateSynonyms)
           departmentIndex == findIndex(headers, departmentSynonyms)
           cashIndex == findIndex(headers, cashSynonyms)
           onlineIndex == findIndex(headers, onlineSynonyms)
           missing == \/ dateIndex = 0 - 1 \/ departmentIndex = 0 - 1
                      \/ cashIndex = 0 - 1 \/ onlineIndex = 0 - 1
       IN  IF missing /\ Len(headers) < 4 THEN Throws(ColumnsError)
           ELSE Returns(mapAndFilter(rows,
                  IF dateIndex = 0 - 1 THEN 0 ELSE dateIndex,
                  IF departmentIndex = 0 - 1 THEN 1 ELSE departmentIndex,
                  IF cashIndex = 0 - 1 THEN 2 ELSE cashIndex,
                  IF onlineIndex = 0 - 1 THEN 3 ELSE onlineIndex))

\* parseGoogleSheetsData(data), with values = data.values
parseGoogleSheetsData(values) ==
  IF values = NoValues \/ Len(values) < 2 THEN Returns(<< >>)
  ELSE LET headers == Head(values)
           rows == Tail(values)
           dateIndex == findIndex(headers, dateSynonyms)
           departmentIndex == findIndex(headers, departmentSynonyms)
           cashIndex == findIndex(headers, cashSynonyms)
           onlineIndex == findIndex(headers, onlineSynonyms)
       IN  IF \/ dateIndex = 0 - 1 \/ departmentIndex = 0 - 1
              \/ cashIndex = 0 - 1 \/ onlineIndex = 0 - 1
           THEN IF Len(headers) < 4 THEN Throws(ColumnsError)
                ELSE Returns(mapAndFilter(rows, 0, 1, 2, 3))
           ELSE Returns(mapAndFilter(rows, dateIndex, departmentIndex,
                                     cashIndex, onlineIndex))

\* ------------------------------------------------------------------------
\* parseGoogleSheetsData applied to a sheet
\* ------------------------------------------------------------------------

\* the header rows of the sheets that are parsed
HeaderRows ==
  { << << "D", "a", "t", "e" >>,
       << "D", "e", "p", "a", "r", "t", "m", "e", "n", "t" >>,
       << "C", "a", "s", "h" >>,
       << "O", "n", "l", "i", "n", "e" >> >>,
    << << "D", "E", "P", "T" >>,
       << "D", "a", "y" >>,
       << "C", "a", "r", "d" >>,
       << "C", "a", "s", "h" >> >>,
    << << "D", "e", "p", "t" >>,
       << "D", "a", "t", "e" >>,
       << "A", "m", "o", "u", "n", "t" >>,
       << "O", "n", "l", "i", "n", "e" >> >>,
    << << "D", "a", "t", "e" >>,
       << "D", "e", "p", "t" >>,
       << "C", "a", "s", "h" >> >>,
    << << "D", "a", "y", "/", "D", "e", "p", "t" >>,
       << "C", "a", "s", "h" >>,
       << "C", "a", "r", "d" >> >>,
    << << "C", "o", "l", "1" >>,
       << "C", "o", "l", "2" >>,
       << "C", "o", "l", "3" >>,
       << "C", "o", "l", "4" >> >>,
    << << "N", "a", "m", "e" >>,
       << "U", "p", "d", "a", "t", "e", "d" >>,
       << "D", "a", "t", "e" >>,
       << "L", "o", "c", "a", "t", "i", "o", "n" >>,
       << "C", "a", "s", "h" >>,
       << "O", "n", "l", "i", "n", "e" >> >> }

\* the data rows: a full row, the same with date and department swapped and
\* an amount taken back, rows with an empty date or department cell, a row
\* that its trailing empty cells were cut from and a row whose amounts are
\* no numbers
SheetRows ==
  { << << "1", "/", "5", "/", "2", "0", "2", "5" >>,
       << "K", "i", "t", "c", "h", "e", "n" >>,
       << "1", "0", "0" >>,
       << "5", "0" >> >>,
    << << "K", "i", "t", "c", "h", "e", "n" >>,
       << "1", "/", "5", "/", "2", "0", "2", "5" >>,
       << "5", "0" >>,
       << "-", "1", "0", "0" >> >>,
    << << >>,
       << "K", "i", "t", "c", "h", "e", "n" >>,
       << "1", "0", "0" >>,
       << "5", "0" >> >>,
    << << "1", "/", "5", "/", "2", "0", "2", "5" >>,
       << >>,
       << "1", "0", "0" >>,
       << "5", "0" >> >>,
    << << "1", "/", "5", "/", "2", "0", "2", "5" >> >>,
    << << "1", "/", "6", "/", "2", "0", "2", "5" >>,
       << "G", "i", "f", "t" >>,
       << " ", "7", "x" >>,
       << "n", "/", "a" >> >> }

Sheets ==
  { << headers >> \o rows :
      headers \in HeaderRows, rows \in SeqsUpTo(SheetRows, MaxSheetRows) }
    \cup { NoValues, << >> }

InitParse ==
  /\ calcData \in Sheets
  /\ calcDept = "Unknown"
  /\ calcArgs = NoResult
  /\ calcOp = "idle"
  /\ calcOut = NoResult
  /\ calcPrev = NoResult
  /\ IdleLifecycle

\* fetchData: return this.parseGoogleSheetsData(data), once for a sheet
CallParseGoogleSheetsData ==
  /\ calcOp = "idle"
  /\ calcOp' = "parseGoogleSheetsData"
  /\ calcOut' = parseGoogleSheetsData(calcData)
  /\ UNCHANGED << calcData, calcDept, calcArgs, calcPrev, lifecycleVars >>

NextParse == CallParseGoogleSheetsData

SpecParse == InitParse /\ [][NextParse]_vars

\* ------------------------------------------------------------------------
\* useFilters
\* calcArgs holds the state of the hook and the day of the session, calcOut
\* the memoized filteredData, calcPrev the call made last.
\* ------------------------------------------------------------------------

\* the first and the last day of the week of the first clock reading and the
\* day of the second reading
HookDates ==
  { DateString(12, 30, 2024), DateString(1, 5, 2025),
    DateString(3, 3, 2024) }

HookRecords ==
  { [ date |-> d, department |-> "Kitchen", cash |-> 100, online |-> 50 ] :
      d \in HookDates }

\* useState of useFilters on the first render
InitialFilterState(now) ==
  [ filter |-> "all", specificDate |-> << >>, startDate |-> << >>,
    endDate |-> << >>, now |-> now ]

\* the hook state after setFilter(filter, date); no date is << >>
setFilter(state, filter, date) ==
  [ state EXCEPT
      !.filter = filter,
      !.specificDate = date,
      !.startDate = IF filter # "specific" THEN << >> ELSE @,
      !.endDate = IF filter # "specific" THEN << >> ELSE @ ]

\* the hook state after setDateRange(start, end)
setDateRange(state, start, end) ==
  [ state EXCEPT
      !.startDate = start,
      !.endDate = end,
      !.filter = "specific",
      !.specificDate = << >> ]

\* the useMemo of filteredData
memoFilteredData(records, state) ==
  filterDataByDate(records, state.filter, state.specificDate,
                   state.startDate, state.endDate, state.now)

InitHook ==
  /\ calcData \in SeqsUpTo(HookRecords, MaxHookRecords)
  /\ calcDept = "Unknown"
  /\ \E now \in FilterNows : calcArgs = InitialFilterState(now)
  /\ calcOp = "idle"
  /\ calcOut = calcData
  /\ calcPrev = NoResult
  /\ IdleLifecycle

\* setFilter(filter, date) and the render after it
CallSetFilter ==
  /\ \E filter \in DateFilters, date \in SpecificDates \cup { << >> } :
       /\ calcArgs' = setFilter(calcArgs, filter, date)
       /\ calcPrev' = [ call |-> "setFilter", filter |-> filter,
                        date |-> date, start |-> << >>, end |-> << >> ]
  /\ calcOp' = "setFilter"
  /\ calcOut' = memoFilteredData(calcData, calcArgs')
  /\ UNCHANGED << calcData, calcDept, lifecycleVars >>

\* setDateRange(start, end) and the render after it
CallSetDateRange ==
  /\ \E start \in SpecificDates, end \in SpecificDates :
       /\ calcArgs' = setDateRange(calcArgs, start, end)
       /\ calcPrev' = [ call |-> "setDateRange", filter |-> "specific",
                        date |-> << >>, start |-> start, end |-> end ]
  /\ calcOp' = "setDateRange"
  /\ calcOut' = memoFilteredData(calcData, calcArgs')
  /\ UNCHANGED << calcData, calcDept, lifecycleVars >>

NextHook ==
  \/ CallSetFilter
  \/ CallSetDateRange

SpecHook == InitHook /\ [][NextHook]_vars

\* ------------------------------------------------------------------------
\* useMessages
\* ------------------------------------------------------------------------

\* the delay of the setTimeout of addMessage, in milliseconds
AutoRemoveDelay == 5000

\* the clock stops here
MaxClock == 2 * AutoRemoveDelay + MaxMillis

\* texts and types of the notifications App adds
MessageContents ==
  { [ text |-> "Data refreshed successfully!", type |-> "success" ],
    [ text |-> "Failed to fetch data", type |-> "error" ] }

\* prev.filter(msg => msg.id !== id)
removeMessage(prev, id) == SelectSeq(prev, LAMBDA msg : msg.id # id)

InitMessages ==
  /\ calcData = << >>
  /\ calcDept = "Unknown"
  /\ calcArgs = NoResult
  /\ calcOp = "idle"
  /\ calcOut = NoResult
  /\ calcPrev = NoResult
  /\ IdleLifecycle

otherThanMessages ==
  << calcVars, app, envConfigured, incomeVars, connectionVars, legacyVars,
     browserVars >>

\* addMessage(text, type): the id is the clock reading as a string.  `seq`
\* numbers the notifications and their timeouts in the order they were added
\* (no field of the program).
addMessage(text, type) ==
  /\ Len(timeouts) < MaxMessages
  /\ dateNow + AutoRemoveDelay <= MaxClock
  /\ LET message == [ id |-> toString(dateNow), text |-> text, type |-> type,
                      seq |-> Len(timeouts) + 1 ]
     IN  /\ messages' = Append(messages, message)
         /\ timeouts' = Append(timeouts,
                               [ id |-> message.id,
                                 due |-> dateNow + AutoRemoveDelay,
                                 fired |-> FALSE, removed |-> 0 ])
  /\ UNCHANGED << dateNow, otherThanMessages >>

\* MessageContainer: the close button of the k-th notification,
\* onRemove(message.id); the timeout of the notification stays set
Dismiss(k) ==
  /\ k \in 1..Len(messages)
  /\ messages' = removeMessage(messages, messages[k].id)
  /\ UNCHANGED << timeouts, dateNow, otherThanMessages >>

\* variant: the callback of the timeout removes nothing
Expire_lost(t) ==
  /\ t \in 1..Len(timeouts)
  /\ ~timeouts[t].fired
  /\ dateNow >= timeouts[t].due
  /\ timeouts' = [ timeouts EXCEPT ![t].fired = TRUE ]
  /\ UNCHANGED << messages, dateNow, otherThanMessages >>

\* the callback of the t-th timeout runs: removeMessage(message.id).
\* `removed` counts the notifications it took away (no field of the program).
Expire(t) ==
  /\ t \in 1..Len(timeouts)
  /\ ~timeouts[t].fired
  /\ dateNow >= timeouts[t].due
  /\ messages' = removeMessage(messages, timeouts[t].id)
  /\ timeouts' = [ timeouts EXCEPT
                     ![t].fired = TRUE,
                     ![t].removed = Len(messages) - Len(messages') ]
  /\ UNCHANGED << dateNow, otherThanMessages >>

clearMessages ==
  /\ messages' = << >>
  /\ UNCHANGED << timeouts, dateNow, otherThanMessages >>

\* time passes: a millisecond, or the delay of a timeout at once
Tick ==
  /\ \E step \in { 1, AutoRemoveDelay } :
       /\ dateNow + step <= MaxClock
       /\ step = 1 => dateNow % AutoRemoveDelay < MaxMillis
       /\ dateNow' = dateNow + step
  /\ UNCHANGED << messages, timeouts, otherThanMessages >>

NextMessages ==
  \/ \E content \in MessageContents : addMessage(content.text, content.type)
  \/ \E k \in 1..Len(messages) : Dismiss(k)
  \/ \E t \in 1..Len(timeouts) : Expire(t)
  \/ clearMessages
  \/ Tick

SpecMessages == InitMessages /\ [][NextMessages]_vars

\* the event loop runs the callback of a timeout that is due, and time passes
FairSpecMessages ==
  /\ SpecMessages
  /\ WF_vars(Tick)
  /\ \A t \in 1..MaxMessages : WF_vars(Expire(t))

\* ------------------------------------------------------------------------
\* React front end: useIncomeData
\* ------------------------------------------------------------------------

\* refresh(), up to its await.  With an incomplete environment the sample
\* data is installed and the call ends at once; otherwise fetchData is in
\* flight.
Refresh ==
  /\ app = "react"
  /\ nextId <= MaxRequests
  /\ error' = NoError
  /\ IF ~envConfigured
     THEN /\ data' = sampleDataReact
          /\ filteredData' = sampleDataReact
          /\ loading' = FALSE
          /\ UNCHANGED << pending, nextId >>
     ELSE /\ loading' = TRUE
          /\ pending' = Issue(Request(nextId, "refresh", NoConfig))
          /\ nextId' = nextId + 1
          /\ UNCHANGED << data, filteredData >>
  /\ UNCHANGED << calcVars, messageVars, app, envConfigured, connectionVars, legacyVars,
                  timers >>

\* fetchData resolved with newData: setData, setFilteredData, finally
RefreshResolve(r, newData) ==
  /\ app = "react"
  /\ r \in pending
  /\ r.kind = "refresh"
  /\ data' = newData
  /\ filteredData' = newData
  /\ loading' = FALSE
  /\ pending' = pending \ { r }
  /\ UNCHANGED << calcVars, messageVars, app, envConfigured, error, connectionVars,
                  legacyVars, timers, nextId >>

\* variant: a failed refresh empties the snapshot
RefreshReject_clear(r) ==
  /\ app = "react"
  /\ r \in pending
  /\ r.kind = "refresh"
  /\ error' = FetchErrorMessage
  /\ data' = << >>
  /\ filteredData' = << >>
  /\ loading' = FALSE
  /\ pending' = pending \ { r }
  /\ UNCHANGED << calcVars, messageVars, app, envConfigured, connectionVars, legacyVars,
                  timers, nextId >>

\* fetchData rejected: catch (setError), finally
RefreshReject(r) ==
  /\ app = "react"
  /\ r \in pending
  /\ r.kind = "refresh"
  /\ error' = FetchErrorMessage
  /\ loading' = FALSE
  /\ pending' = pending \ { r }
  /\ UNCHANGED << calcVars, messageVars, app, envConfigured, data, filteredData,
                  connectionVars, legacyVars, timers, nextId >>

\* ------------------------------------------------------------------------
\* React front end: useConnection
\* ------------------------------------------------------------------------

\* variant: startAutoSync creates no timer
startAutoSync_noTimer(handle, config) ==
  /\ timers' = timers \ { autoSyncIntervalRef }
  /\ autoSyncIntervalRef' = autoSyncIntervalRef

\* variant: the interval that is running is not cleared
startAutoSync_keepsOld(handle, config) ==
  /\ timers' = IF config # NoConfig THEN timers \cup { handle } ELSE timers
  /\ autoSyncIntervalRef' = IF config # NoConfig THEN handle
                            ELSE autoSyncIntervalRef

\* startAutoSync(), run when configRef.current is config; handle is the
\* handle setInterval returns
startAutoSync(handle, config) ==
  /\ timers' = IF config # NoConfig
               THEN (timers \ { autoSyncIntervalRef }) \cup { handle }
               ELSE timers \ { autoSyncIntervalRef }
  /\ autoSyncIntervalRef' = IF config # NoConfig THEN handle
                            ELSE autoSyncIntervalRef

\* stopAutoSync()
stopAutoSync ==
  /\ timers' = timers \ { autoSyncIntervalRef }
  /\ autoSyncIntervalRef' = NoTimer

\* connect(config), up to its await: testConnection is in flight
Connect(config) ==
  /\ app = "react"
  /\ nextId <= MaxRequests
  /\ connectionState' = [ status |-> "connecting",
                          message |-> "Testing connection..." ]
  /\ pending' = Issue(Request(nextId, "connect", config))
  /\ nextId' = nextId + 1
  /\ UNCHANGED << calcVars, messageVars, app, envConfigured, incomeVars,
                  autoSyncIntervalRef, configRef, legacyVars, timers >>

\* testConnection resolved (it resolves with true or not at all)
ConnectResolve(r) ==
  /\ app = "react"
  /\ r \in pending
  /\ r.kind = "connect"
  /\ ~MissingCredentials(r.config)
  /\ configRef' = r.config
  /\ connectionState' = [ status |-> "connected",
                          message |-> "Connected to Google Sheets" ]
  /\ startAutoSync(r.id, r.config)
  /\ pending' = pending \ { r }
  /\ UNCHANGED << calcVars, messageVars, app, envConfigured, incomeVars, legacyVars,
                  nextId >>

\* testConnection rejected: missing credentials, network or HTTP error, no
\* rows in the range
ConnectReject(r) ==
  /\ app = "react"
  /\ r \in pending
  /\ r.kind = "connect"
  /\ connectionState' =
       [ status |-> "disconnected",
         message |-> IF MissingCredentials(r.config)
                     THEN "API key and Spreadsheet ID are required"
                     ELSE "Failed to connect to Google Sheets" ]
  /\ pending' = pending \ { r }
  /\ UNCHANGED << calcVars, messageVars, app, envConfigured, incomeVars,
                  autoSyncIntervalRef, configRef, legacyVars, timers, nextId >>

\* disconnect()
Disconnect ==
  /\ app = "react"
  /\ stopAutoSync
  /\ configRef' = NoConfig
  /\ connectionState' = [ status |-> "disconnected",
                          message |-> "Disconnected" ]
  /\ UNCHANGED << calcVars, messageVars, app, envConfigured, incomeVars, legacyVars,
                  pending, nextId >>

\* sync(), up to its await.  Without a stored configuration it throws and
\* changes nothing; otherwise fetchData(configRef.current) is in flight.
sync ==
  /\ nextId <= MaxRequests
  /\ IF configRef = NoConfig
     THEN UNCHANGED << connectionState, pending, nextId >>
     ELSE /\ connectionState' = [ status |-> "connecting",
                                  message |-> "Syncing..." ]
          /\ pending' = Issue(Request(nextId, "sync", configRef))
          /\ nextId' = nextId + 1
  /\ UNCHANGED << calcVars, messageVars, app, envConfigured, incomeVars,
                  autoSyncIntervalRef, configRef, legacyVars, timers >>

\* App.handleSync: the user asks for a sync
HandleSync ==
  /\ app = "react"
  /\ sync

\* the interval callback of startAutoSync: sync(), its error swallowed
AutoSyncTick(t) ==
  /\ app = "react"
  /\ t \in timers
  /\ sync

\* fetchData of a sync resolved with newData: the records are logged, the
\* connection state is updated
SyncResolve(r, newData) ==
  /\ app = "react"
  /\ r \in pending
  /\ r.kind = "sync"
  /\ connectionState' = [ status |-> "connected",
                          message |-> "Synced successfully" ]
  /\ pending' = pending \ { r }
  /\ UNCHANGED << calcVars, messageVars, app, envConfigured, incomeVars,
                  autoSyncIntervalRef, configRef, legacyVars, timers, nextId >>

\* variant: a failed sync stops the auto-sync timer
SyncReject_stopsTimer(r) ==
  /\ app = "react"
  /\ r \in pending
  /\ r.kind = "sync"
  /\ connectionState' = [ status |-> "disconnected",
                          message |-> FetchErrorMessage ]
  /\ stopAutoSync
  /\ pending' = pending \ { r }
  /\ UNCHANGED << calcVars, messageVars, app, envConfigured, incomeVars, configRef,
                  legacyVars, nextId >>

\* fetchData of a sync rejected: the connection state is updated and the
\* error rethrown to handleSync or to the interval callback
SyncReject(r) ==
  /\ app = "react"
  /\ r \in pending
  /\ r.kind = "sync"
  /\ connectionState' = [ status |-> "disconnected",
                          message |-> FetchErrorMessage ]
  /\ pending' = pending \ { r }
  /\ UNCHANGED << calcVars, messageVars, app, envConfigured, incomeVars,
                  autoSyncIntervalRef, configRef, legacyVars, timers, nextId >>

\* ------------------------------------------------------------------------
\* Legacy page script
\* ------------------------------------------------------------------------

\* the rows of a response (data.values without its header row); no rows is
\* an empty or header-only sheet
LegacyResponses == Datasets \cup { << >> }

\* what fetchDataFromGoogleSheets makes of a response: the parsed rows when
\* data.values has more than the header row, the sample data otherwise
legacyParse(rows) ==
  IF Len(rows) + 1 > 1
  THEN [ i \in 1..Len(rows) |->
           [ date |-> rows[i].date, department |-> rows[i].department,
             cash |-> rows[i].cash, online |-> rows[i].online ] ]
  ELSE sampleData

\* fetchDataFromGoogleSheets(), up to its await; it returns at once when
\* not connected
legacyFetchStart(id) ==
  IF ~isConnected
  THEN UNCHANGED << pending, nextId >>
  ELSE /\ pending' = Issue(Request(id, "legacyFetch", NoConfig))
       /\ nextId' = nextId + 1

\* testGoogleSheetsConnection(), up to its await (the simulated delay);
\* without credentials in the form it only shows a message
LegacyTestConnection(hasCredentials) ==
  /\ app = "legacy"
  /\ nextId + 1 <= MaxRequests
  /\ IF ~hasCredentials
     THEN UNCHANGED << pending, nextId >>
     ELSE /\ pending' = Issue(Request(nextId, "legacyConnect", NoConfig))
          /\ nextId' = nextId + 1
  /\ UNCHANGED << calcVars, messageVars, app, envConfigured, incomeVars, connectionVars,
                  legacyVars, timers >>

\* legacy startAutoSync(): the timer is started unconditionally
legacyStartAutoSync(handle) ==
  /\ timers' = (timers \ { autoSyncInterval }) \cup { handle }
  /\ autoSyncInterval' = handle

\* legacy stopAutoSync()
legacyStopAutoSync ==
  /\ timers' = timers \ { autoSyncInterval }
  /\ autoSyncInterval' = NoTimer

\* testGoogleSheetsConnection() after the delay: connected, auto-sync
\* started, first fetch issued
LegacyConnectResume(r) ==
  /\ app = "legacy"
  /\ r \in pending
  /\ r.kind = "legacyConnect"
  /\ isConnected' = TRUE
  /\ legacyStartAutoSync(r.id)
  /\ pending' = IssueBeside(pending \ { r },
                            Request(nextId, "legacyFetch", NoConfig))
  /\ nextId' = nextId + 1
  /\ UNCHANGED << calcVars, messageVars, app, envConfigured, incomeVars, connectionVars,
                  incomeData >>

\* the manual sync button
LegacySyncClick ==
  /\ app = "legacy"
  /\ nextId <= MaxRequests
  /\ legacyFetchStart(nextId)
  /\ UNCHANGED << calcVars, messageVars, app, envConfigured, incomeVars, connectionVars,
                  legacyVars, timers >>

\* the interval callback of the legacy startAutoSync
LegacyAutoSyncTick(t) ==
  /\ app = "legacy"
  /\ t \in timers
  /\ nextId <= MaxRequests
  /\ legacyFetchStart(nextId)
  /\ UNCHANGED << calcVars, messageVars, app, envConfigured, incomeVars, connectionVars,
                  legacyVars, timers >>

\* the response arrived and was read
LegacyFetchResolve(r, rows) ==
  /\ app = "legacy"
  /\ r \in pending
  /\ r.kind = "legacyFetch"
  /\ incomeData' = legacyParse(rows)
  /\ pending' = pending \ { r }
  /\ UNCHANGED << calcVars, messageVars, app, envConfigured, incomeVars, connectionVars,
                  isConnected, autoSyncInterval, timers, nextId >>

\* fetch or response.json() threw: disconnected, auto-sync stopped
LegacyFetchReject(r) ==
  /\ app = "legacy"
  /\ r \in pending
  /\ r.kind = "legacyFetch"
  /\ isConnected' = FALSE
  /\ legacyStopAutoSync
  /\ pending' = pending \ { r }
  /\ UNCHANGED << calcVars, messageVars, app, envConfigured, incomeVars, connectionVars,
                  incomeData, nextId >>

\* ------------------------------------------------------------------------
\* The lifecycle
\* ------------------------------------------------------------------------

\* the hooks after their first render; the page after initApp
Init ==
  /\ calcData = << >>
  /\ calcDept = "Unknown"
  /\ calcArgs = NoResult
  /\ calcOp = "idle"
  /\ calcOut = NoResult
  /\ calcPrev = NoResult
  /\ app \in { "react", "legacy" }
  /\ envConfigured \in BOOLEAN
  /\ app = "legacy" => envConfigured
  /\ data = << >>
  /\ filteredData = << >>
  /\ loading = FALSE
  /\ error = NoError
  /\ connectionState = [ status |-> "disconnected",
                         message |-> "Not Connected" ]
  /\ autoSyncIntervalRef = NoTimer
  /\ configRef = NoConfig
  /\ incomeData = IF app = "legacy" THEN sampleData ELSE << >>
  /\ isConnected = FALSE
  /\ autoSyncInterval = NoTimer
  /\ messages = << >>
  /\ timeouts = << >>
  /\ dateNow = 0
  /\ timers = { }
  /\ pending = { }
  /\ nextId = 1

Next ==
  \/ Refresh
  \/ \E r \in pending, newData \in FetchResults :
       RefreshResolve(r, newData)
  \/ \E r \in pending : RefreshReject(r)
  \/ \E config \in Configs : Connect(config)
  \/ \E r \in pending : ConnectResolve(r)
  \/ \E r \in pending : ConnectReject(r)
  \/ Disconnect
  \/ HandleSync
  \/ \E t \in timers : AutoSyncTick(t)
  \/ \E r \in pending, newData \in FetchResults :
       SyncResolve(r, newData)
  \/ \E r \in pending : SyncReject(r)
  \/ \E hasCredentials \in BOOLEAN : LegacyTestConnection(hasCredentials)
  \/ \E r \in pending : LegacyConnectResume(r)
  \/ LegacySyncClick
  \/ \E t \in timers : LegacyAutoSyncTick(t)
  \/ \E r \in pending, rows \in LegacyResponses : LegacyFetchResolve(r, rows)
  \/ \E r \in pending : LegacyFetchReject(r)

Spec == Init /\ [][Next]_vars

\* ------------------------------------------------------------------------
\* Properties of the calculators
\* ------------------------------------------------------------------------

\* the cash of the first n records whose department is exactly d
RECURSIVE CashOfDepartment(_, _, _)
CashOfDepartment(R, d, n) ==
  IF n = 0 THEN 0
  ELSE CashOfDepartment(R, d, n - 1)
         + (IF R[n].department = d THEN R[n].cash ELSE 0)

\* the online amount of the first n records whose department is exactly d
RECURSIVE OnlineOfDepartment(_, _, _)
OnlineOfDepartment(R, d, n) ==
  IF n = 0 THEN 0
  ELSE OnlineOfDepartment(R, d, n - 1)
         + (IF R[n].department = d THEN R[n].online ELSE 0)

HasRecordOf(R, d) == \E i \in 1..Len(R) : R[i].department = d

\* the sum of calculateDepartmentTotals(R, s).total over the names s in S
RECURSIVE SumOfDepartmentTotals(_, _)
SumOfDepartmentTotals(R, S) ==
  IF S = { } THEN 0
  ELSE LET s == CHOOSE x \in S : TRUE
       IN  calculateDepartmentTotals(R, s).total
             + SumOfDepartmentTotals(R, S \ { s })

\* the cash and the online amount of all records, whatever the department
CashOfAll(R) ==
  LET RECURSIVE upto(_)
      upto(n) == IF n = 0 THEN 0 ELSE upto(n - 1) + R[n].cash
  IN  upto(Len(R))

OnlineOfAll(R) ==
  LET RECURSIVE upto(_)
      upto(n) == IF n = 0 THEN 0 ELSE upto(n - 1) + R[n].online
  IN  upto(Len(R))

\* C1: for every record list R and department name d, the result of
\* calculateDepartmentTotals(R, d) has total = cash + online.
C1_TotalIsCashPlusOnline ==
  calcOp = "calculateDepartmentTotals"
    => calcOut.total = calcOut.cash + calcOut.online

C1_Witness ==
  /\ calcOp = "calculateDepartmentTotals"
  /\ calcOut.cash > 0
  /\ calcOut.online > 0

\* C2: hasData is true only when at least one record of R has the department
\* d and the summed total of those records is greater than 0; a department
\* whose matching rows are all zero-valued has hasData = FALSE.
C2_HasDataNeedsPositiveTotal ==
  calcOp = "calculateDepartmentTotals"
    => LET sum == CashOfDepartment(calcData, calcDept, Len(calcData))
                    + OnlineOfDepartment(calcData, calcDept, Len(calcData))
       IN  /\ calcOut.hasData => HasRecordOf(calcData, calcDept) /\ sum > 0
           /\ sum = 0 => ~calcOut.hasData

\* a matching row exists, every matching row is zero, and hasData is FALSE
C2_Witness ==
  /\ calcOp = "calculateDepartmentTotals"
  /\ HasRecordOf(calcData, calcDept)
  /\ calcOut.total = 0
  /\ ~calcOut.hasData

\* C3: cash is the sum of cash, and online the sum of online, over exactly
\* the records whose department string equals d (case-sensitive); for a name
\* matching no record the result is cash = 0, online = 0, total = 0,
\* hasData = FALSE.
C3_SumsOverExactMatches ==
  calcOp = "calculateDepartmentTotals"
    => /\ calcOut.cash = CashOfDepartment(calcData, calcDept, Len(calcData))
       /\ calcOut.online
            = OnlineOfDepartment(calcData, calcDept, Len(calcData))
       /\ ~HasRecordOf(calcData, calcDept)
            => calcOut = [ cash |-> 0, online |-> 0, total |-> 0,
                           hasData |-> FALSE ]

\* "Kitchen" is asked for, the list holds a paying "kitchen" row and a
\* "Kitchen" row, and only the latter is counted
C3_Witness ==
  /\ calcOp = "calculateDepartmentTotals"
  /\ calcDept = "Kitchen"
  /\ \E i \in 1..Len(calcData) :
       calcData[i].department = "kitchen" /\ calcData[i].cash > 0
  /\ calcOut = [ cash |-> 100, online |-> 50, total |-> 150,
                 hasData |-> TRUE ]

C5_RevenueAndZeroPercentages ==
  calcOp = "calculateKPIs"
    => /\ calcOut.totalRevenue = calcOut.totalCash + calcOut.totalOnline
       /\ calcOut.totalCash = CashOfAll(calcData)
       /\ calcOut.totalOnline = OnlineOfAll(calcData)
       /\ calcOut.totalRevenue = 0
            => calcOut.cashPercentage = 0 /\ calcOut.onlinePercentage = 0

\* records are present and none of them carries an amount
C5_Witness ==
  /\ calcOp = "calculateKPIs"
  /\ Len(calcData) > 0
  /\ calcOut.totalRevenue = 0
  /\ calcOut.cashPercentage = 0

\* ------------------------------------------------------------------------
\* Properties of the fetch lifecycle
\* ------------------------------------------------------------------------

\* C6 as stated: when a refresh fails, the snapshot after the failure is
\* the snapshot from before that refresh was started.
C6_SnapshotAsBeforeRefreshStarted ==
  [][ \A r \in pending :
        (RefreshReject(r) \/ LegacyFetchReject(r))
          => Snapshot' = r.startSnapshot ]_vars

\* C6, amended: a failing refresh writes nothing to the snapshot (the snapshot
\* after the failure is the one right before it), and that is the snapshot
\* from before the refresh was started whenever no other fetch was in flight
\* together with it.
C6_FailedRefreshKeepsSnapshot ==
  [][ \A r \in pending :
        (RefreshReject(r) \/ LegacyFetchReject(r))
          => /\ Snapshot' = Snapshot
             /\ ~r.overlapped => Snapshot' = r.startSnapshot ]_vars

\* a refresh has failed and the records of an earlier one are still held
C6_Witness ==
  /\ app = "react"
  /\ error # NoError
  /\ data \in Datasets
  /\ ~loading

\* C7: after every successful refresh and every successful sync the snapshot
\* is exactly the record list that fetch returned.
C7_SnapshotIsFetchedList ==
  [][ \A r \in pending, newData \in FetchResults :
        (RefreshResolve(r, newData) \/ SyncResolve(r, newData))
          => data' = newData ]_vars

\* fetch r completes successfully and delivers the record list result
FetchDelivers(r, result) ==
  \/ RefreshResolve(r, result)
  \/ SyncResolve(r, result)
  \/ \E rows \in LegacyResponses :
       LegacyFetchResolve(r, rows) /\ result = legacyParse(rows)

\* C8: a fetch issued while another is in flight aborts nothing, and when the
\* last of the overlapping fetches resolves the snapshot is its result.
C8_LastResolvedFetchWins ==
  [][ /\ nextId' > nextId
        => { p.id : p \in Fetches(pending) }
             \subseteq { p.id : p \in Fetches(pending') }
      /\ \A r \in pending, result \in FetchResults \cup { sampleData } :
           (FetchDelivers(r, result) /\ r.overlapped
              /\ Fetches(pending) = { r })
             => Snapshot' = result ]_vars

\* C9: after a successful connect() the auto-sync timer is running, a failed
\* connect() starts no timer, and after disconnect() no timer is running.
C9_TimerFollowsConnection ==
  [][ /\ \A r \in pending :
           ConnectResolve(r)
             => autoSyncIntervalRef' # NoTimer
                  /\ autoSyncIntervalRef' \in timers'
      /\ \A r \in pending : ConnectReject(r) => timers' = timers
      /\ Disconnect => timers' = { } ]_vars

\* connected, with the timer the reference names running
C9_Witness ==
  /\ connectionState.status = "connected"
  /\ connectionState.message = "Connected to Google Sheets"
  /\ autoSyncIntervalRef \in timers

\* C10 as stated: a failed fetch issues no retry, leaves the snapshot as it
\* was and does not stop the auto-sync timer.
C10_FailedFetchKeepsTimer ==
  [][ \A r \in pending :
        (SyncReject(r) \/ LegacyFetchReject(r))
          => /\ pending' = pending \ { r }
             /\ Snapshot' = Snapshot
             /\ timers' = timers ]_vars

\* C10, amended: a failed fetch issues no retry and leaves the snapshot as it
\* was.  In the React hooks the timer and the stored configuration stay, so
\* the next attempt is the next tick or a manual sync; in the legacy script
\* the failure disconnects and stops the timer.
C10_FailedFetchNoRetry ==
  [][ \A r \in pending :
        /\ SyncReject(r)
             => /\ pending' = pending \ { r }
                /\ data' = data
                /\ timers' = timers
                /\ autoSyncIntervalRef' = autoSyncIntervalRef
                /\ configRef' = configRef
        /\ LegacyFetchReject(r)
             => /\ pending' = pending \ { r }
                /\ incomeData' = incomeData
                /\ timers' = { }
                /\ ~isConnected' ]_vars

\* a sync has failed and the auto-sync timer is still running
C10_Witness ==
  /\ connectionState.message = FetchErrorMessage
  /\ autoSyncIntervalRef \in timers
  /\ configRef # NoConfig

\* C11 as stated: when a refresh cannot proceed because required
\* configuration is missing, an error is surfaced and the snapshot held before
\* the refresh is retained unchanged.
C11_MissingConfigurationIsAnError ==
  [][ (Refresh /\ ~envConfigured)
        => /\ error' # NoError
           /\ data' = data ]_vars

\* ------------------------------------------------------------------------
\* Properties of filterDataByDate
\* ------------------------------------------------------------------------

\* the calendar day a date string names when read as month/day/year, as a
\* count of days from 1 January of year 1 (NaN when it names none)
CalendarDay(dateStr) ==
  IF Len(dateStr) # 3 THEN NaN
  ELSE LET month == parseDigits(dateStr[1])
           day == parseDigits(dateStr[2])
           year == parseDigits(dateStr[3])
       IN  DaysBeforeYear(year) + DaysBeforeMonth(year, month - 1) + day - 1

\* the records of R whose calendar day lies between first and last
RecordsBetween(R, first, last) ==
  SelectSeq(R, LAMBDA record :
    /\ CalendarDay(record.date) # NaN
    /\ first <= CalendarDay(record.date)
    /\ CalendarDay(record.date) <= last)

\* how often record x occurs in the list R
Occurrences(R, x) == Cardinality({ i \in 1..Len(R) : R[i] = x })

\* C12: for every evaluation date today, filterDataByDate(R, 'week') returns
\* exactly the records whose parsed date lies between Monday and Sunday
\* (inclusive) of today's week, Monday = today - ((dayOfWeek + 6) % 7) days.
C12_WeekIsMondayToSunday ==
  (calcOp = "filterDataByDate" /\ calcArgs.filter = "week")
    => LET today == calcArgs.now
           monday == today - ((getDay(today) + 6) % 7)
       IN  calcOut = RecordsBetween(calcData, monday, monday + 6)

\* today is Wednesday 1 January 2025: the Monday before, 30 December 2024,
\* is kept and the Monday after, 6 January 2025, is not
C12_Witness ==
  /\ calcOp = "filterDataByDate"
  /\ calcArgs.filter = "week"
  /\ calcArgs.now = MakeDate(2025, 0, 1)
  /\ Len(calcData) = 2
  /\ calcData[1].date = DateString(12, 30, 2024)
  /\ calcData[2].date = DateString(1, 6, 2025)
  /\ calcOut = << calcData[1] >>

\* C13: filterDataByDate(R, 'specific', -, start, end) with both start and
\* end supplied returns exactly the records whose date, parsed as
\* month/day/year, satisfies start <= date <= end at day granularity, both
\* endpoints included.
C13_RangeIncludesBothEndpoints ==
  (/\ calcOp = "filterDataByDate"
   /\ calcArgs.filter = "specific"
   /\ calcArgs.startDate # << >>
   /\ calcArgs.endDate # << >>)
    => calcOut = RecordsBetween(calcData, CalendarDay(calcArgs.startDate),
                                CalendarDay(calcArgs.endDate))

\* a record on the start day and a record on the end day are both returned
C13_Witness ==
  /\ calcOp = "filterDataByDate"
  /\ calcArgs.filter = "specific"
  /\ calcArgs.startDate = DateString(12, 30, 2024)
  /\ calcArgs.endDate = DateString(1, 5, 2025)
  /\ Len(calcData) = 2
  /\ calcData[1].date = DateString(12, 30, 2024)
  /\ calcData[2].date = PaddedDateString(1, 5, 2025)
  /\ calcOut = calcData

\* the dates supplied to a call, as a list
SuppliedDates ==
  SelectSeq(<< calcArgs.specificDate, calcArgs.startDate, calcArgs.endDate >>,
            LAMBDA d : d # << >>)

\* C14 as stated: with filter 'specific' and only one date supplied (the
\* single date, only a start, or only an end) the result is exactly the
\* records whose parsed calendar date equals that date.
C14_SingleDateIsOneDayRange ==
  (/\ calcOp = "filterDataByDate"
   /\ calcArgs.filter = "specific"
   /\ Len(SuppliedDates) = 1)
    => calcOut = RecordsBetween(calcData, CalendarDay(SuppliedDates[1]),
                                CalendarDay(SuppliedDates[1]))

\* C15: 'yesterday' returns exactly the records dated the calendar day before
\* the current local date, 'month' those within the first to the last day of
\* the current calendar month, 'year' those within 1 January to 31 December
\* of the current calendar year.
C15_YesterdayMonthYear ==
  calcOp = "filterDataByDate"
    => LET today == calcArgs.now
           InMonth(record) ==
             /\ Len(record.date) = 3
             /\ parseDigits(record.date[1]) = getMonth(today) + 1
             /\ parseDigits(record.date[3]) = getFullYear(today)
           InYear(record) ==
             /\ Len(record.date) = 3
             /\ parseDigits(record.date[3]) = getFullYear(today)
       IN  /\ calcArgs.filter = "yesterday"
                => calcOut = RecordsBetween(calcData, today - 1, today - 1)
           /\ calcArgs.filter = "month"
                => calcOut = SelectSeq(calcData, InMonth)
           /\ calcArgs.filter = "year"
                => calcOut = SelectSeq(calcData, InYear)

\* in January 2025 the record of 31 January is kept and the one of
\* 1 February is not
C15_Witness ==
  /\ calcOp = "filterDataByDate"
  /\ calcArgs.filter = "month"
  /\ calcArgs.now = MakeDate(2025, 0, 1)
  /\ Len(calcData) = 2
  /\ calcData[1].date = DateString(2, 1, 2025)
  /\ calcData[2].date = DateString(1, 31, 2025)
  /\ calcOut = << calcData[2] >>

\* C16: filterDataByDate(R, 'all'), and any call that matches no filter
\* branch, returns the same multiset of records as R.
C16_AllKeepsEveryRecord ==
  (/\ calcOp = "filterDataByDate"
   /\ \/ calcArgs.filter = "all"
      \/ calcArgs.filter \notin DateFilters
      \/ calcArgs.filter = "specific" /\ SuppliedDates = << >>)
    => /\ Len(calcOut) = Len(calcData)
       /\ \A x \in FilterRecords :
            Occurrences(calcOut, x) = Occurrences(calcData, x)

\* a call that matches no branch, on a list that holds one record twice
C16_Witness ==
  /\ calcOp = "filterDataByDate"
  /\ calcArgs.filter = "today"
  /\ Len(calcData) = 2
  /\ calcData[1] = calcData[2]
  /\ Len(calcOut) = 2

\* ------------------------------------------------------------------------
\* Properties of the KPI department counts
\* ------------------------------------------------------------------------

\* the positions of R that hold the first record of their department
FirstOfDepartment(R) ==
  { i \in 1..Len(R) : \A j \in 1..(i - 1) : R[j].department # R[i].department }

\* C20: calculateKPIs(R).activeDepartments is the number of distinct
\* department strings occurring in R (departments whose rows are all zero and
\* names outside the catalog included), and totalDepartments is the size of
\* the static department catalog for every R.
C20_DepartmentCounts ==
  calcOp = "calculateKPIs"
    => /\ calcOut.activeDepartments = Cardinality(FirstOfDepartment(calcData))
       /\ calcOut.totalDepartments = Cardinality(Range(ALL_DEPARTMENTS))

\* two departments are counted: one is outside the catalog and all the rows
\* of the other are zero
C20_Witness ==
  /\ calcOp = "calculateKPIs"
  /\ Len(calcData) = 2
  /\ calcData[1].department = "kitchen"
  /\ calcData[2].department = "Gift Shop"
  /\ calcData[2].cash + calcData[2].online = 0
  /\ calcOut.activeDepartments = 2
  /\ calcOut.totalDepartments = 12

\* ------------------------------------------------------------------------
\* Properties of calculateAnalytics
\* ------------------------------------------------------------------------

\* the summed revenue of the records of R whose key (date or department) is k
RevenueOfDate(R, k) ==
  LET RECURSIVE upto(_)
      upto(n) == IF n = 0 THEN 0
                 ELSE upto(n - 1)
                        + (IF R[n].date = k THEN R[n].cash + R[n].online
                           ELSE 0)
  IN  upto(Len(R))

RevenueOfDepartment(R, k) ==
  LET RECURSIVE upto(_)
      upto(n) == IF n = 0 THEN 0
                 ELSE upto(n - 1)
                        + (IF R[n].department = k
                           THEN R[n].cash + R[n].online ELSE 0)
  IN  upto(Len(R))

DatesOf(R) == { R[i].date : i \in 1..Len(R) }

DepartmentsOf(R) == { R[i].department : i \in 1..Len(R) }

\* the groups whose summed revenue is the maximum
BestDates(R) ==
  { k \in DatesOf(R) :
      \A k2 \in DatesOf(R) : RevenueOfDate(R, k2) <= RevenueOfDate(R, k) }

BestDepartments(R) ==
  { k \in DepartmentsOf(R) :
      \A k2 \in DepartmentsOf(R) :
        RevenueOfDepartment(R, k2) <= RevenueOfDepartment(R, k) }

\* the position of the first record of a group
FirstOfDate(R, k) == CHOOSE i \in 1..Len(R) :
  R[i].date = k /\ \A j \in 1..(i - 1) : R[j].date # k

FirstRecordOfDepartment(R, k) == CHOOSE i \in 1..Len(R) :
  R[i].department = k /\ \A j \in 1..(i - 1) : R[j].department # k

\* C17 as stated: when several date groups (bestDay) or department groups
\* (topDepartment) share the maximum summed revenue, the group selected is the
\* one whose first record appears earliest in the input, for every input
\* including numeric-looking keys.
C17_EarliestGroupWins ==
  (calcOp = "calculateAnalytics" /\ calcData # << >>)
    => /\ \E k \in BestDates(calcData) :
            /\ calcOut.bestDay.date = formatDate(k)
            /\ \A k2 \in BestDates(calcData) :
                 FirstOfDate(calcData, k) <= FirstOfDate(calcData, k2)
       /\ \E k \in BestDepartments(calcData) :
            /\ calcOut.topDepartment.name = k
            /\ \A k2 \in BestDepartments(calcData) :
                 FirstRecordOfDepartment(calcData, k)
                   <= FirstRecordOfDepartment(calcData, k2)

\* group k comes no later than group k2 when the properties of the grouping
\* object are listed: array-index keys first, in ascending numeric order,
\* then the other keys by their first record
ListedNoLater(indexK, firstK, indexK2, firstK2) ==
  IF indexK # NaN /\ indexK2 # NaN THEN indexK <= indexK2
  ELSE IF indexK # NaN THEN TRUE
  ELSE IF indexK2 # NaN THEN FALSE
  ELSE firstK <= firstK2

\* C17, amended: among the groups that share the maximum the one selected is
\* the first in the property order of the grouping object: keys that are
\* array indices ("7", "10") in ascending numeric order, then every other key
\* in the order of its first record.
C17_FirstListedGroupWins ==
  (calcOp = "calculateAnalytics" /\ calcData # << >>)
    => /\ \E k \in BestDates(calcData) :
            /\ calcOut.bestDay.date = formatDate(k)
            /\ calcOut.bestDay.amount
                 = formatCurrency(RevenueOfDate(calcData, k))
            /\ \A k2 \in BestDates(calcData) :
                 ListedNoLater(ArrayIndexOfDate(k), FirstOfDate(calcData, k),
                               ArrayIndexOfDate(k2),
                               FirstOfDate(calcData, k2))
       /\ \E k \in BestDepartments(calcData) :
            /\ calcOut.topDepartment.name = k
            /\ calcOut.topDepartment.amount
                 = formatCurrency(RevenueOfDepartment(calcData, k))
            /\ \A k2 \in BestDepartments(calcData) :
                 ListedNoLater(ArrayIndexOfDepartment(k),
                               FirstRecordOfDepartment(calcData, k),
                               ArrayIndexOfDepartment(k2),
                               FirstRecordOfDepartment(calcData, k2))

\* two days and two departments tie; the earlier day is selected, and of the
\* departments "Kitchen" (first record) and "7" (second record) it is "7"
C17_Witness ==
  /\ calcOp = "calculateAnalytics"
  /\ Len(calcData) = 2
  /\ calcData[1].date = DateString(2, 1, 2025)
  /\ calcData[2].date = DateString(1, 5, 2025)
  /\ calcData[1].department = "Kitchen"
  /\ calcData[2].department = "7"
  /\ calcData[1].cash + calcData[1].online
       = calcData[2].cash + calcData[2].online
  /\ calcOut.bestDay.date = [ day |-> 1, month |-> 2, year |-> 2025 ]
  /\ calcOut.topDepartment.name = "7"

\* the calendar days, (year, month) pairs and years present in R
CalendarDaysOf(R) == { CalendarDay(R[i].date) : i \in 1..Len(R) }

CalendarMonthsOf(R) ==
  { << parseDigits(R[i].date[3]), parseDigits(R[i].date[1]) >> :
      i \in 1..Len(R) }

CalendarYearsOf(R) == { parseDigits(R[i].date[3]) : i \in 1..Len(R) }

\* C18: for every non-empty record list avgDailyRevenue, avgMonthlyRevenue
\* and avgYearlyRevenue are (cashTotal + onlineTotal) divided by the number
\* of distinct calendar days, distinct (year, month) pairs and distinct years
\* present; two date strings denoting the same calendar day count once.
C18_AveragesPerCalendarUnit ==
  (calcOp = "calculateAnalytics" /\ calcData # << >>)
    => LET total == CashOfAll(calcData) + OnlineOfAll(calcData)
       IN  /\ calcOut.avgDailyRevenue
                = Quotient(total, Cardinality(CalendarDaysOf(calcData)))
           /\ calcOut.avgMonthlyRevenue
                = Quotient(total, Cardinality(CalendarMonthsOf(calcData)))
           /\ calcOut.avgYearlyRevenue
                = Quotient(total, Cardinality(CalendarYearsOf(calcData)))

\* the ratio text shows the hundredth nearest to cash / online (a half goes
\* up), with two decimals and the suffix ":1"
ShowsRatio(text, cash, online) ==
  /\ DOMAIN text = { "whole", "fraction", "suffix" }
  /\ text.suffix = ":1"
  /\ Len(text.fraction) = 2
  /\ LET hundredths == 100 * parseDigits(text.whole)
                         + 10 * text.fraction[1] + text.fraction[2]
     IN  /\ 2 * (100 * cash - hundredths * online) <= online
         /\ 2 * (hundredths * online - 100 * cash) < online

\* C19 as stated: cashOnlineRatio is "--" whenever the online total is 0 and
\* otherwise cashTotal / onlineTotal with two decimals followed by ":1".
C19_DashesOnlyAtZeroOnline ==
  (calcOp = "calculateAnalytics" /\ calcData # << >>)
    => LET cash == CashOfAll(calcData)
           online == OnlineOfAll(calcData)
       IN  IF online = 0 THEN calcOut.cashOnlineRatio = Dashes
           ELSE calcOut.cashOnlineRatio # Dashes

\* C19, amended: cashOnlineRatio is "--" whenever the online total is not
\* greater than 0 (zero or negative) and otherwise cashTotal / onlineTotal
\* with two decimals followed by ":1".
C19_DashesUnlessOnlinePositive ==
  (calcOp = "calculateAnalytics" /\ calcData # << >>)
    => LET cash == CashOfAll(calcData)
           online == OnlineOfAll(calcData)
       IN  IF online <= 0 THEN calcOut.cashOnlineRatio = Dashes
           ELSE ShowsRatio(calcOut.cashOnlineRatio, cash, online)

\* cash 300 and online 100 give "3.00:1"
C19_Witness ==
  /\ calcOp = "calculateAnalytics"
  /\ CashOfAll(calcData) = 300
  /\ OnlineOfAll(calcData) = 100
  /\ calcOut.cashOnlineRatio
       = [ whole |-> << 3 >>, fraction |-> << 0, 0 >>, suffix |-> ":1" ]

\* C21: calculateAnalytics([]) returns "--" for every string field (bestDay,
\* topDepartment, cashOnlineRatio) and 0 for every numeric field (the three
\* average-revenue fields).
C21_EmptyListGivesDashesAndZeros ==
  (calcOp = "calculateAnalytics" /\ calcData = << >>)
    => calcOut = [ bestDay |-> [ text |-> "--" ],
                   topDepartment |-> [ text |-> "--" ],
                   cashOnlineRatio |-> [ text |-> "--" ],
                   avgDailyRevenue |-> [ num |-> 0, den |-> 1 ],
                   avgMonthlyRevenue |-> [ num |-> 0, den |-> 1 ],
                   avgYearlyRevenue |-> [ num |-> 0, den |-> 1 ] ]

\* calculateAnalytics has been applied to the empty list
C21_Witness ==
  /\ calcOp = "calculateAnalytics"
  /\ calcData = << >>
  /\ DOMAIN calcOut
       = { "bestDay", "topDepartment", "cashOnlineRatio", "avgDailyRevenue",
           "avgMonthlyRevenue", "avgYearlyRevenue" }

HeaderHolds(header, synonym) ==
  LET h == toLowerCaseChars(header)
  IN  \E i \in 0..Len(h) :
        /\ i + Len(synonym) <= Len(h)
        /\ h = SubSeq(h, 1, i) \o synonym
                 \o SubSeq(h, i + Len(synonym) + 1, Len(h))

\* the columns (from 0) whose header holds one of the strings
MatchingColumns(headers, synonyms) ==
  { i - 1 : i \in { j \in 1..Len(headers) :
                      \E syn \in synonyms : HeaderHolds(headers[j], syn) } }

Least(S) == CHOOSE x \in S : \A y \in S : x <= y

FieldSynonyms ==
  << dateSynonyms, departmentSynonyms, cashSynonyms, onlineSynonyms >>

AllFieldsMatch(headers) ==
  \A f \in 1..4 : MatchingColumns(headers, FieldSynonyms[f]) # { }

\* the column of field f (1 date, 2 department, 3 cash, 4 online): the first
\* matching one when every field has a matching header, its position otherwise
FieldColumn(headers, f) ==
  IF AllFieldsMatch(headers)
  THEN Least(MatchingColumns(headers, FieldSynonyms[f]))
  ELSE f - 1

\* the column of field f where each field falls back on its own
FieldColumnAlone(headers, f) ==
  IF MatchingColumns(headers, FieldSynonyms[f]) # { }
  THEN Least(MatchingColumns(headers, FieldSynonyms[f]))
  ELSE f - 1

\* the row has a cell in the column and the cell is not empty
Filled(row, column) == column + 1 <= Len(row) /\ row[column + 1] # << >>

\* the data rows (numbered from 1) with a date and a department
CompleteRows(values) ==
  { i \in 1..(Len(values) - 1) :
      /\ Filled(values[i + 1], FieldColumn(Head(values), 1))
      /\ Filled(values[i + 1], FieldColumn(Head(values), 2)) }

\* the k-th of a set of numbers
Nth(S, k) == CHOOSE x \in S : Cardinality({ y \in S : y < x }) = k - 1

\* C23: of the rows of a sheet that is parsed, those whose date or department
\* cell is missing or empty are dropped and all others are kept in their
\* order; the call throws only over the header row (a field without a
\* matching header and fewer than four columns), never over a row.
C23_IncompleteRowsDropped ==
  (calcOp = "parseGoogleSheetsData" /\ calcData # NoValues /\ Len(calcData) >= 2)
    => LET headers == Head(calcData)
           kept == CompleteRows(calcData)
       IN  IF calcOut.throws # NoError
           THEN ~AllFieldsMatch(headers) /\ Len(headers) < 4
           ELSE /\ Len(calcOut.value) = Cardinality(kept)
                /\ \A k \in 1..Len(calcOut.value) :
                     LET row == calcData[Nth(kept, k) + 1]
                     IN  /\ calcOut.value[k].date
                              = row[FieldColumn(headers, 1) + 1]
                         /\ calcOut.value[k].department
                              = row[FieldColumn(headers, 2) + 1]
                         /\ calcOut.value[k].cash
                              = parseFloatOrZero(row, FieldColumn(headers, 3))
                         /\ calcOut.value[k].online
                              = parseFloatOrZero(row, FieldColumn(headers, 4))

\* a row without a department before a full row: one record comes back
C23_Witness ==
  /\ calcOp = "parseGoogleSheetsData"
  /\ calcData # NoValues
  /\ Len(calcData) = 3
  /\ CompleteRows(calcData) = { 2 }
  /\ calcOut.throws = NoError
  /\ Len(calcOut.value) = 1

\* C24 as stated: each field is read from the first column whose header holds
\* one of its synonyms, and from its position among the first four columns
\* when no header does.
C24_EachFieldFromItsMatch ==
  (/\ calcOp = "parseGoogleSheetsData" /\ calcData # NoValues
   /\ Len(calcData) >= 2 /\ calcOut.throws = NoError)
    => calcOut.value
         = mapAndFilter(Tail(calcData),
                        FieldColumnAlone(Head(calcData), 1),
                        FieldColumnAlone(Head(calcData), 2),
                        FieldColumnAlone(Head(calcData), 3),
                        FieldColumnAlone(Head(calcData), 4))

\* C24: when every one of the four fields has a header that holds one of its
\* synonyms (lower-cased substring), each field is read from the first such
\* column; as soon as one field has none, all four fields are read from the
\* first four columns, and the call throws when there are fewer than four.
C24_MatchAllOrFallBackAll ==
  (/\ calcOp = "parseGoogleSheetsData" /\ calcData # NoValues
   /\ Len(calcData) >= 2)
    => IF ~AllFieldsMatch(Head(calcData)) /\ Len(Head(calcData)) < 4
       THEN calcOut.throws = ColumnsError
       ELSE calcOut
              = Returns(mapAndFilter(Tail(calcData),
                                     FieldColumn(Head(calcData), 1),
                                     FieldColumn(Head(calcData), 2),
                                     FieldColumn(Head(calcData), 3),
                                     FieldColumn(Head(calcData), 4)))

\* a sheet whose date and department headers match in swapped columns while
\* the cash header matches nothing, and a row read by position
C24_Witness ==
  /\ calcOp = "parseGoogleSheetsData"
  /\ calcData # NoValues
  /\ Len(calcData) >= 2
  /\ Len(Head(calcData)) = 4
  /\ MatchingColumns(Head(calcData), dateSynonyms) = { 1 }
  /\ MatchingColumns(Head(calcData), cashSynonyms) = { }
  /\ calcOut.throws = NoError
  /\ Len(calcOut.value) > 0
  /\ calcOut.value[1].date = calcData[2][1]

\* the notification added as the s-th is on screen
OnScreen(s) == \E k \in 1..Len(messages) : messages[k].seq = s

\* C25: every notification on screen can be dismissed, is gone once the
\* callback of its timeout has run, and so is eventually gone whether or not
\* the user dismisses it; a notification on screen stops no other action
\* (time passes and clearMessages stays possible).
C25_EveryNotificationGoes ==
  /\ [](\A k \in 1..Len(messages) : ENABLED Dismiss(k))
  /\ [](\A s \in 1..Len(timeouts) : OnScreen(s) => ~timeouts[s].fired)
  /\ [](messages # << >> => ENABLED clearMessages)
  /\ \A s \in 1..MaxMessages : OnScreen(s) ~> ~OnScreen(s)

\* two notifications were added and none is left; the timeout of the second
\* took it away
C25_Witness ==
  /\ Len(timeouts) >= 2
  /\ timeouts[2].fired
  /\ timeouts[2].removed = 1
  /\ messages = << >>

\* C30 as stated: the close button of a notification and the callback of its
\* timeout take exactly that notification away and leave all others.
C30_RemovesExactlyThatNotification ==
  [][/\ \A k \in 1..Len(messages) :
          Dismiss(k)
            => messages' = SelectSeq(messages, LAMBDA msg :
                                       msg.seq # messages[k].seq)
      /\ \A t \in 1..Len(timeouts) :
          Expire(t)
            => messages' = SelectSeq(messages, LAMBDA msg : msg.seq # t)]_vars

\* C26 as stated: when the last connect or sync request in flight settles
\* while the hook is as disconnect() left it, the status is 'disconnected',
\* the stored config is null and no auto-sync timer runs.
C26_DisconnectedAfterInFlightSettle ==
  [][\A r \in pending :
       (/\ app = "react"
        /\ r.kind \in { "connect", "sync" }
        /\ connectionState = [ status |-> "disconnected",
                               message |-> "Disconnected" ]
        /\ pending' = pending \ { r }
        /\ \A p \in pending' : p.kind \notin { "connect", "sync" })
         => /\ connectionState'.status = "disconnected"
            /\ configRef' = NoConfig
            /\ timers' = { }]_vars

\* C27 as stated: while a refresh is in flight, loading is true.
C27_LoadingWhileRefreshInFlight ==
  (\E r \in pending : r.kind = "refresh") => loading

\* C29: at most one auto-sync interval timer is active, in the React front
\* end and in the legacy page, whatever connect, sync and disconnect calls
\* were made.
C29_AtMostOneAutoSyncTimer == Cardinality(timers) <= 1

\* connect() was called again while the timer of an earlier connect runs
C29_Witness ==
  /\ app = "react"
  /\ autoSyncIntervalRef # NoTimer
  /\ timers = { autoSyncIntervalRef }
  /\ \E r \in pending :
       /\ r.kind = "connect"
       /\ ~MissingCredentials(r.config)
       /\ r.id > autoSyncIntervalRef

\* the hook state after the call made last, had it been the only call
MostRecentCallAlone ==
  IF calcPrev.call = "setFilter"
  THEN setFilter(InitialFilterState(calcArgs.now), calcPrev.filter,
                 calcPrev.date)
  ELSE setDateRange(InitialFilterState(calcArgs.now), calcPrev.start,
                    calcPrev.end)

\* C28 as stated: after any sequence of setFilter and setDateRange calls,
\* filteredData is what the most recent call alone gives; setFilter('specific',
\* d) gives exactly the records dated d.
C28_MostRecentCallDecides ==
  calcOp \in { "setFilter", "setDateRange" }
    => /\ calcOut = memoFilteredData(calcData, MostRecentCallAlone)
       /\ (/\ calcPrev.call = "setFilter" /\ calcPrev.filter = "specific"
           /\ calcPrev.date # << >>)
            => calcOut = SelectSeq(calcData, LAMBDA record :
                                     record.date = calcPrev.date)

====
